---- MODULE Spec2Model ----
(***************************************************************************)
(* Model of the noter bot of payout-bot/bot.js (the second program of the  *)
(* file, lines 130-616): staking data of tracked accounts is collected     *)
(* from Asset Hub (direct staking + nomination pools), compared with the   *)
(* snapshot cached on People Chain and, when it differs, submitted with    *)
(* receive_staking_details.  processAccount is modelled step by step, one  *)
(* action per await of a remote call; the chains are the environment.      *)
(***************************************************************************)
EXTENDS Integers, Sequences, FiniteSets, TLC

VARIABLES
    direct,     \* Asset Hub: account -> direct staking snapshot (ledger, nominators)
    pool,       \* Asset Hub: account -> pool membership (points, unbonding eras)
    cache,      \* People Chain: account -> source -> cachedStakingDetails (<<>> = None)
    tracked,    \* People Chain: the accounts of stakingStartBlock
    mainPc,     \* position of main()
    sweeps,     \* the fullScan invocations that have not returned, by slot
    handlers,   \* the finalized-head callbacks that have not returned, by slot
    cyc,        \* the processAccount invocations of the sweeps and callbacks
    nFail,      \* remote failures so far
    nChange,    \* staking changes on Asset Hub so far
    limits,     \* the bounds of the behaviour, fixed by the initial state
    last,       \* history: account -> how its latest undisturbed processAccount ended
    boot,       \* noter bot startup: secret file, environment, credential, connections
    memo,       \* indexer: the per-block memo maps of Cache.ts
    index,      \* indexer: first-block flags, ActiveStaker entities, pool members on chain
    payout      \* payout bot: chain state read by runPayouts and the calls it has sent

noterVars == <<direct, pool, cache, tracked, mainPc, sweeps, handlers, cyc, nFail, nChange,
               limits, last>>

otherVars == <<boot, memo, index, payout>>

vars == <<noterVars, otherVars>>

-----------------------------------------------------------------------------
(* Bounds of the model *)

MaxInFlight == 2    \* processAccount invocations running at a time
MaxSweepSlots == 2  \* fullScan invocations running at a time
MaxHandlers == 1    \* finalized-head callbacks running at a time
MaxFailures == 1    \* failed remote calls per behaviour
MaxChanges == 1     \* staking changes on Asset Hub per behaviour

(* Program constants *)

BATCH_SIZE == 10

\* The storage order of stakingStartBlock, and the accounts of the base model.
AcctOrder == <<"a1", "a2", "a3", "a4", "a5", "a6", "a7", "a8", "a9", "a10", "a11">>
Accounts == {"a1", "a2"}
Sources == {"AssetHub", "RelayChain"}

-----------------------------------------------------------------------------
(* Values *)

Snap(s, n, u) == [stakedAmount |-> s, nominationsCount |-> n, unlockingChunksCount |-> u]
ZeroSnap == Snap(0, 0, 0)
ZeroPool == [stakedAmount |-> 0, nominationsCount |-> 0, unlockingChunksCount |-> 0,
             queryFailed |-> FALSE]

Min(x, y) == IF x < y THEN x ELSE y

-----------------------------------------------------------------------------
(* STAKING DATA COLLECTION *)

\* The queries getAssetHubStakingData can make, by the storage item and key.
DirectQueries == {"ledger", "bonded", "controllerLedger", "nominators"}

\* directQuery that never asks for the bonded controller.
directQueryNoFallback(hasStaking, ledger, bonded, nominators, address, failing) ==
    IF ~hasStaking \/ "ledger" \in failing \/ ledger[address] = <<>> THEN ZeroSnap
    ELSE IF "nominators" \in failing THEN ZeroSnap
    ELSE Snap(ledger[address][1].active,
              IF nominators[address] = <<>> THEN 0 ELSE Len(nominators[address][1].targets),
              Len(ledger[address][1].unlocking))

\* The body of getAssetHubStakingData over the staking storage of Asset Hub:
\* ledger and nominators map an account to <<>> (None) or <<value>>, bonded
\* maps it to <<>> or <<controller>>; a query in failing throws when it is
\* made, and every throw ends in the catch that returns zeros.
directQuery(hasStaking, ledger, bonded, nominators, address, failing) ==
    IF ~hasStaking THEN ZeroSnap
    ELSE IF "ledger" \in failing THEN ZeroSnap
    ELSE IF ledger[address] = <<>> /\ "bonded" \in failing THEN ZeroSnap
    ELSE IF ledger[address] = <<>> /\ bonded[address] # <<>> /\ "controllerLedger" \in failing
    THEN ZeroSnap
    ELSE LET ledgerResult ==
                 IF ledger[address] # <<>> THEN ledger[address]
                 ELSE IF bonded[address] # <<>> THEN ledger[bonded[address][1]]
                 ELSE <<>>
         IN IF ledgerResult = <<>> THEN ZeroSnap
            ELSE IF "nominators" \in failing THEN ZeroSnap
            ELSE Snap(ledgerResult[1].active,
                      IF nominators[address] = <<>> THEN 0
                      ELSE Len(nominators[address][1].targets),
                      Len(ledgerResult[1].unlocking))

\* Chunks and targets of the given number.
Filled(n, x) == [i \in 1..n |-> x]

\* The direct staking query of an account whose staking storage amounts to
\* direct[address], held under its own key: the ledger's snapshot, or zeros
\* (with no failure mark) when a query throws.
getAssetHubStakingData(address, rpcOk) ==
    LET d == direct[address]
    IN directQuery(TRUE,
                   [k \in {address} |->
                       <<[active |-> d.stakedAmount,
                          unlocking |-> Filled(d.unlockingChunksCount, "chunk")]>>],
                   [k \in {address} |-> <<>>],
                   [k \in {address} |->
                       IF d.nominationsCount = 0 THEN <<>>
                       ELSE <<[targets |-> Filled(d.nominationsCount, "validator")]>>],
                   address,
                   IF rpcOk THEN {} ELSE {"ledger"})

FailedPool == [stakedAmount |-> 0, nominationsCount |-> 0, unlockingChunksCount |-> 0,
               queryFailed |-> TRUE]

\* poolQuery that reports a failed membership query as 'no membership'.
poolQueryNoFlag(hasPools, memberResult, membersOk, bondedOk) ==
    IF ~hasPools \/ ~membersOk \/ memberResult = <<>> THEN ZeroPool
    ELSE [stakedAmount |-> memberResult[1].points, nominationsCount |-> 0,
          unlockingChunksCount |-> memberResult[1].unbondingEras, queryFailed |-> FALSE]

\* The body of getAssetHubPoolData.  hasPools: the chain has
\* nominationPools.poolMembers; memberResult: the Option it holds for the
\* address; membersOk, bondedOk: the poolMembers and the bondedPools query do
\* not throw.  The result of bondedPools is not used and its error is caught
\* by the inner try: the points stay the stake either way.
poolQuery(hasPools, memberResult, membersOk, bondedOk) ==
    IF ~hasPools THEN ZeroPool
    ELSE IF ~membersOk THEN FailedPool
    ELSE IF memberResult = <<>> THEN ZeroPool
    ELSE LET points == memberResult[1].points
             stakedAmount == IF bondedOk THEN points ELSE points
         IN [stakedAmount |-> stakedAmount, nominationsCount |-> 0,
             unlockingChunksCount |-> memberResult[1].unbondingEras,
             queryFailed |-> FALSE]

\* The pool query of an account whose membership is pool[address] (zero points
\* and no unbonding era standing for no membership too): zeros with
\* queryFailed when the membership query throws.
getAssetHubPoolData(address, rpcOk) ==
    poolQuery(TRUE,
              <<[points |-> pool[address].stakedAmount,
                 unbondingEras |-> pool[address].unlockingChunksCount]>>,
              rpcOk, TRUE)

\* getCachedData that answers with the record although the read threw.
getCachedDataThrough(address, source, rpcOk) == cache[address][source]

\* The cached snapshot of (address, source), None (<<>>) when absent or when
\* the read throws.
getCachedData(address, source, rpcOk) ==
    IF rpcOk THEN cache[address][source] ELSE <<>>

\* hasDataChanged that always asks for an update.
hasDataChangedAlways(fresh, cached) == TRUE

\* hasDataChanged without the 'no cache' case.
hasDataChangedNoBootstrap(fresh, cached) ==
    /\ cached # <<>>
    /\ \/ fresh.stakedAmount # cached[1].stakedAmount
       \/ fresh.nominationsCount # cached[1].nominationsCount
       \/ fresh.unlockingChunksCount # cached[1].unlockingChunksCount

hasDataChanged(fresh, cached) ==
    IF cached = <<>> THEN TRUE
    ELSE \/ fresh.stakedAmount # cached[1].stakedAmount
         \/ fresh.nominationsCount # cached[1].nominationsCount
         \/ fresh.unlockingChunksCount # cached[1].unlockingChunksCount

\* combinedData that leaves the pool part out.
combinedDataDirectOnly(ahStakingData, poolData) ==
    [stakedAmount |-> ahStakingData.stakedAmount,
     nominationsCount |-> ahStakingData.nominationsCount,
     unlockingChunksCount |-> ahStakingData.unlockingChunksCount]

combinedData(ahStakingData, poolData) ==
    [stakedAmount |-> ahStakingData.stakedAmount + poolData.stakedAmount,
     nominationsCount |-> ahStakingData.nominationsCount,
     unlockingChunksCount |->
         ahStakingData.unlockingChunksCount + poolData.unlockingChunksCount]

\* Step 3 without the check for a failed pool query.
ahUpdatesNoSkip(address, combined, poolData, ahStakingCached) ==
    IF hasDataChanged(combined, ahStakingCached)
    THEN <<[address |-> address, source |-> "AssetHub", data |-> combined]>>
    ELSE <<>>

\* Step 3 that also skips when the cached stake equals the combined one.
ahUpdatesSkipEqual(address, combined, poolData, ahStakingCached) ==
    IF hasDataChanged(combined, ahStakingCached)
    THEN IF /\ poolData.queryFailed
            /\ ahStakingCached # <<>>
            /\ ahStakingCached[1].stakedAmount >= combined.stakedAmount
         THEN <<>>
         ELSE <<[address |-> address, source |-> "AssetHub", data |-> combined]>>
    ELSE <<>>

\* Step 3 of processAccount: the AssetHub update, if any.
ahUpdates(address, combined, poolData, ahStakingCached) ==
    IF hasDataChanged(combined, ahStakingCached)
    THEN IF /\ poolData.queryFailed
            /\ ahStakingCached # <<>>
            /\ ahStakingCached[1].stakedAmount > combined.stakedAmount
         THEN <<>>
         ELSE <<[address |-> address, source |-> "AssetHub", data |-> combined]>>
    ELSE <<>>

\* Step 4 that pushes the clearing update twice.
rcUpdatesTwice(address, relayCached) ==
    IF relayCached # <<>> /\ relayCached[1].stakedAmount > 0
    THEN <<[address |-> address, source |-> "RelayChain", data |-> ZeroSnap],
           [address |-> address, source |-> "RelayChain", data |-> ZeroSnap]>>
    ELSE <<>>

\* Step 4 that clears every RelayChain record it finds.
rcUpdatesAnyRecord(address, relayCached) ==
    IF relayCached # <<>>
    THEN <<[address |-> address, source |-> "RelayChain", data |-> ZeroSnap]>>
    ELSE <<>>

\* Step 4 of processAccount: the update that clears an old RelayChain record.
rcUpdates(address, relayCached) ==
    IF relayCached # <<>> /\ relayCached[1].stakedAmount > 0
    THEN <<[address |-> address, source |-> "RelayChain", data |-> ZeroSnap]>>
    ELSE <<>>

\* buildTx that wraps a single call in a batch too.
buildTxBatchAlways(updates) == [kind |-> "batchAll", calls |-> updates]

\* The transaction submitStakingDetails builds of a nonempty update list.
buildTx(updates) ==
    IF Len(updates) = 1
    THEN [kind |-> "single", calls |-> updates]
    ELSE [kind |-> "batchAll", calls |-> updates]

\* applyCalls whose calls add to the record instead of replacing it.
RECURSIVE applyCallsAdditive(_, _)
applyCallsAdditive(c, calls) ==
    IF calls = <<>> THEN c
    ELSE LET u == Head(calls)
             old == IF c[u.address][u.source] = <<>> THEN ZeroSnap
                    ELSE c[u.address][u.source][1]
         IN applyCallsAdditive(
               [c EXCEPT ![u.address][u.source] =
                   <<Snap(old.stakedAmount + u.data.stakedAmount,
                          u.data.nominationsCount, u.data.unlockingChunksCount)>>],
               Tail(calls))

\* applyCalls that stops after the first call.
applyFirstCall(c, calls) ==
    IF calls = <<>> THEN c
    ELSE [c EXCEPT ![Head(calls).address][Head(calls).source] = <<Head(calls).data>>]

\* receive_staking_details applied to the cache, call by call.
RECURSIVE applyCalls(_, _)
applyCalls(c, calls) ==
    IF calls = <<>> THEN c
    ELSE applyCalls(
            [c EXCEPT ![Head(calls).address][Head(calls).source] = <<Head(calls).data>>],
            Tail(calls))

-----------------------------------------------------------------------------
(* processAccount, one action per await *)

SweepSlots == DOMAIN sweeps
HandlerSlots == DOMAIN handlers

\* A processAccount invocation is named by its caller and its address.
CycleIds == DOMAIN cyc
AllCycleIds(S, H, A) == ({"sweep"} \X S \X A) \cup ({"event"} \X H \X A)
AcctOf(c) == c[3]
RunningPcs == {"direct", "pool", "cacheAH", "cacheRC", "inflight"}

\* The fields after updates are history: whether a remote read of the
\* invocation failed, whether Asset Hub or the cache of its address changed under
\* it, and last[address] when it was called.
FreeCycle ==
    [pc |-> "free", ah |-> ZeroSnap, poolData |-> ZeroPool, combined |-> ZeroSnap,
     cached |-> <<>>, updates |-> <<>>, fail |-> FALSE, ext |-> FALSE, after |-> "none"]
NewCycle(address) == [FreeCycle EXCEPT !.pc = "direct", !.after = last[address]]

\* How an invocation that returns now (resolved or rejected) leaves last;
\* wrote tells whether its transaction changed the cache.  "clean": resolved
\* with no failed read; "rejected": rejected with no failed read; "any": a
\* read had failed.
Returned(c, resolved, wrote) ==
    IF cyc[c].ext
    THEN (IF wrote THEN [last EXCEPT ![AcctOf(c)] = "none"] ELSE last)
    ELSE [last EXCEPT ![AcctOf(c)] =
            IF cyc[c].fail THEN "any" ELSE IF resolved THEN "clean" ELSE "rejected"]

\* cyc with the running invocations for address a, c excepted, marked as
\* disturbed.
Disturb(f, a, c) ==
    [d \in DOMAIN f |->
        IF d # c /\ AcctOf(d) = a /\ f[d].pc \in RunningPcs
        THEN [f[d] EXCEPT !.ext = TRUE] ELSE f[d]]

InFlight == Cardinality({c \in CycleIds : cyc[c].pc \in RunningPcs})
Settled(c) == cyc[c].pc \in {"done", "rejected"}
\* The value processAccount resolves with.
ResultOf(c) == Len(cyc[c].updates)

Alive == mainPc # "exited"
FailBudget(ok) == nFail' = IF ok THEN nFail ELSE nFail + 1
MayFail(ok) == ok \/ nFail < limits.failures

CollectDirect(c, ok) ==
    /\ Alive /\ cyc[c].pc = "direct" /\ MayFail(ok)
    /\ cyc' = [cyc EXCEPT ![c].pc = "pool",
                          ![c].ah = getAssetHubStakingData(AcctOf(c), ok),
                          ![c].fail = @ \/ ~ok]
    /\ FailBudget(ok)
    /\ UNCHANGED <<direct, pool, cache, tracked, mainPc, sweeps, handlers, nChange, limits, otherVars, last>>

CollectPool(c, ok) ==
    /\ Alive /\ cyc[c].pc = "pool" /\ MayFail(ok)
    /\ LET pd == getAssetHubPoolData(AcctOf(c), ok) IN
       cyc' = [cyc EXCEPT ![c].pc = "cacheAH",
                          ![c].poolData = pd,
                          ![c].combined = combinedData(cyc[c].ah, pd),
                          ![c].fail = @ \/ ~ok]
    /\ FailBudget(ok)
    /\ UNCHANGED <<direct, pool, cache, tracked, mainPc, sweeps, handlers, nChange, limits, otherVars, last>>

ReadCacheAH(c, ok) ==
    /\ Alive /\ cyc[c].pc = "cacheAH" /\ MayFail(ok)
    /\ LET cd == getCachedData(AcctOf(c), "AssetHub", ok) IN
       cyc' = [cyc EXCEPT ![c].pc = "cacheRC",
                          ![c].cached = cd,
                          ![c].updates =
                              ahUpdates(AcctOf(c), cyc[c].combined, cyc[c].poolData, cd),
                          ![c].fail = @ \/ ~ok]
    /\ FailBudget(ok)
    /\ UNCHANGED <<direct, pool, cache, tracked, mainPc, sweeps, handlers, nChange, limits, otherVars, last>>

\* The RelayChain read, then step 5: with updates the transaction is sent,
\* without any processAccount returns 0.
ReadCacheRC(c, ok) ==
    /\ Alive /\ cyc[c].pc = "cacheRC" /\ MayFail(ok)
    /\ LET rc == getCachedData(AcctOf(c), "RelayChain", ok)
           ups == cyc[c].updates \o rcUpdates(AcctOf(c), rc)
       IN IF Len(ups) > 0
          THEN /\ cyc' = [cyc EXCEPT ![c].pc = "inflight", ![c].updates = ups,
                                     ![c].fail = @ \/ ~ok]
               /\ UNCHANGED last
          ELSE /\ cyc' = [cyc EXCEPT ![c] = [FreeCycle EXCEPT !.pc = "done"]]
               /\ last' = IF cyc[c].ext THEN last
                          ELSE [last EXCEPT ![AcctOf(c)] =
                                   IF cyc[c].fail \/ ~ok THEN "any" ELSE "clean"]
    /\ FailBudget(ok)
    /\ UNCHANGED <<direct, pool, cache, tracked, mainPc, sweeps, handlers, nChange, limits, otherVars>>

\* The transaction is in a block without a dispatch error: the promise
\* resolves and processAccount returns updates.length.
TxIncluded(c) ==
    /\ Alive /\ cyc[c].pc = "inflight"
    /\ cache' = applyCalls(cache, buildTx(cyc[c].updates).calls)
    /\ cyc' = [Disturb(cyc, AcctOf(c), c) EXCEPT
                  ![c] = [FreeCycle EXCEPT !.pc = "done", !.updates = cyc[c].updates]]
    /\ last' = Returned(c, TRUE, cache' # cache)
    /\ UNCHANGED <<direct, pool, tracked, mainPc, sweeps, handlers, nFail, nChange, limits, otherVars>>

\* TxFailed whose rejected calls are written all the same.
TxFailedWrites(c) ==
    /\ Alive /\ cyc[c].pc = "inflight" /\ nFail < limits.failures
    /\ cyc' = [cyc EXCEPT ![c] = [FreeCycle EXCEPT !.pc = "rejected"]]
    /\ nFail' = nFail + 1
    /\ cache' = applyCalls(cache, buildTx(cyc[c].updates).calls)
    /\ last' = Returned(c, FALSE, FALSE)
    /\ UNCHANGED <<direct, pool, tracked, mainPc, sweeps, handlers, nChange, limits, otherVars>>

\* A dispatch error in the block, or signAndSend rejects: the promise rejects
\* and so does processAccount.
TxFailed(c) ==
    /\ Alive /\ cyc[c].pc = "inflight" /\ nFail < limits.failures
    /\ cyc' = [cyc EXCEPT ![c] = [FreeCycle EXCEPT !.pc = "rejected"]]
    /\ nFail' = nFail + 1
    /\ last' = Returned(c, FALSE, FALSE)
    /\ UNCHANGED <<direct, pool, cache, tracked, mainPc, sweeps, handlers, nChange, limits, otherVars>>

\* The transaction never reaches a block: the promise never settles.
TxDropped(c) ==
    /\ Alive /\ cyc[c].pc = "inflight" /\ nFail < limits.failures
    /\ cyc' = [cyc EXCEPT ![c] = [FreeCycle EXCEPT !.pc = "hung"]]
    /\ nFail' = nFail + 1
    /\ UNCHANGED <<direct, pool, cache, tracked, mainPc, sweeps, handlers, nChange, limits, otherVars, last>>

-----------------------------------------------------------------------------
(* fullScan *)

RECURSIVE FilterSeq(_, _)
FilterSeq(s, S) ==
    IF s = <<>> THEN <<>>
    ELSE (IF Head(s) \in S THEN <<Head(s)>> ELSE <<>>) \o FilterSeq(Tail(s), S)

\* stakingStartBlock.entries(): the tracked accounts in storage order.
TrackedEntries == FilterSeq(AcctOrder, tracked)

FreeSweep == [pc |-> "free", entries |-> <<>>, i |-> 0, updatedCount |-> 0, errorCount |-> 0]
NewSweep == [FreeSweep EXCEPT !.pc = "entries"]

\* BatchOf that takes all the entries that are left.
BatchOfRest(entries, i) == SubSeq(entries, i + 1, Len(entries))

\* entries.slice(i, i + BATCH_SIZE)
BatchOf(entries, i) == SubSeq(entries, i + 1, Min(i + BATCH_SIZE, Len(entries)))
Range(s) == {s[k] : k \in 1..Len(s)}
SweepCycles(s) == {c \in CycleIds : c[1] = "sweep" /\ c[2] = s}
BatchCycles(s) == {<<"sweep", s, a>> : a \in Range(BatchOf(sweeps[s].entries, sweeps[s].i))}

\* Promise.allSettled over a batch never settles once one of its promises
\* never does: such a fullScan takes no further step.
Blocked(s) ==
    /\ sweeps[s].pc = "batch"
    /\ \E c \in SweepCycles(s) : cyc[c].pc = "hung"
    /\ \A c \in SweepCycles(s) : cyc[c].pc \notin RunningPcs
SlotFree(s) == sweeps[s].pc = "free" \/ Blocked(s)

\* cyc with the invocations of batch accts of sweep s started and the other
\* ones of s dropped.
StartBatch(s, accts) ==
    [c \in CycleIds |->
        IF c \in SweepCycles(s)
        THEN (IF AcctOf(c) \in Range(accts) THEN NewCycle(AcctOf(c)) ELSE FreeCycle)
        ELSE cyc[c]]

\* ReadEntries whose failure ends the process in a periodic scan too.
ReadEntriesFatal(s, ok) ==
    /\ Alive /\ sweeps[s].pc = "entries" /\ MayFail(ok)
    /\ FailBudget(ok)
    /\ IF ~ok
       THEN /\ sweeps' = [sweeps EXCEPT ![s] = FreeSweep]
            /\ mainPc' = "exited"
            /\ UNCHANGED cyc
       ELSE LET entries == TrackedEntries
                accts == BatchOf(entries, 0)
            IN /\ InFlight + Len(accts) <= limits.inFlight
               /\ sweeps' = [sweeps EXCEPT ![s].entries = entries,
                                           ![s].pc = IF Len(entries) = 0 THEN "done" ELSE "batch"]
               /\ cyc' = StartBatch(s, accts)
               /\ UNCHANGED mainPc
    /\ UNCHANGED <<direct, pool, cache, tracked, handlers, nChange, limits, otherVars, last>>

\* stakingStartBlock.entries() of fullScan: a throw escapes fullScan, to
\* main().catch from the initial scan, to the catch of the timer callback
\* from a periodic one.
ReadEntries(s, ok) ==
    /\ Alive /\ sweeps[s].pc = "entries" /\ MayFail(ok)
    /\ FailBudget(ok)
    /\ IF ~ok
       THEN /\ sweeps' = [sweeps EXCEPT ![s] = FreeSweep]
            /\ mainPc' = IF mainPc = "initScan" THEN "exited" ELSE mainPc
            /\ UNCHANGED cyc
       ELSE LET entries == TrackedEntries
                accts == BatchOf(entries, 0)
            IN /\ InFlight + Len(accts) <= limits.inFlight
               /\ sweeps' = [sweeps EXCEPT ![s].entries = entries,
                                           ![s].pc = IF Len(entries) = 0 THEN "done" ELSE "batch"]
               /\ cyc' = StartBatch(s, accts)
               /\ UNCHANGED mainPc
    /\ UNCHANGED <<direct, pool, cache, tracked, handlers, nChange, limits, otherVars, last>>

RECURSIVE SumOver(_, _)
SumOver(S, f) ==
    IF S = {} THEN 0
    ELSE LET x == CHOOSE y \in S : TRUE IN f[x] + SumOver(S \ {x}, f)

BatchValue(c) == IF cyc[c].pc = "done" THEN ResultOf(c) ELSE 0
\* BatchError that counts a rejection twice.
BatchErrorTwice(c) == IF cyc[c].pc = "rejected" THEN 2 ELSE 0
BatchError(c) == IF cyc[c].pc = "rejected" THEN 1 ELSE 0

\* Promise.allSettled has settled: the results are counted; with entries left
\* fullScan sleeps 500 ms, the settled invocations still on record, otherwise
\* the loop ends.
SettleBatch(s) ==
    /\ Alive /\ sweeps[s].pc = "batch"
    /\ \A c \in BatchCycles(s) : Settled(c)
    /\ LET sw == sweeps[s]
           upd == sw.updatedCount + SumOver(BatchCycles(s), [c \in CycleIds |-> BatchValue(c)])
           err == sw.errorCount + SumOver(BatchCycles(s), [c \in CycleIds |-> BatchError(c)])
           more == sw.i + BATCH_SIZE < Len(sw.entries)
       IN /\ sweeps' = [sweeps EXCEPT
                  ![s].updatedCount = upd,
                  ![s].errorCount = err,
                  ![s].pc = IF more THEN "pause" ELSE "done"]
          /\ cyc' = IF more THEN cyc ELSE StartBatch(s, <<>>)
    /\ UNCHANGED <<direct, pool, cache, tracked, mainPc, handlers, nFail, nChange, limits, otherVars, last>>

\* The pause between two batches is over: i += BATCH_SIZE and the next batch is
\* started.  (Only a fullScan over more than BATCH_SIZE entries pauses.)
PauseOver(s) ==
    /\ Alive /\ sweeps[s].pc = "pause"
    /\ LET sw == sweeps[s]
           accts == BatchOf(sw.entries, sw.i + BATCH_SIZE)
       IN /\ InFlight + Len(accts) <= limits.inFlight
          /\ sweeps' = [sweeps EXCEPT ![s].i = sw.i + BATCH_SIZE, ![s].pc = "batch"]
          /\ cyc' = StartBatch(s, accts)
    /\ UNCHANGED <<direct, pool, cache, tracked, mainPc, handlers, nFail, nChange, limits, otherVars, last>>

\* 'Full scan complete' is logged and fullScan returns; main() awaits the
\* initial scan.
ScanComplete(s) ==
    /\ Alive /\ sweeps[s].pc = "done"
    /\ sweeps' = [sweeps EXCEPT ![s] = FreeSweep]
    /\ mainPc' = IF mainPc = "initScan" THEN "scanned" ELSE mainPc
    /\ UNCHANGED <<direct, pool, cache, tracked, handlers, cyc, nFail, nChange, limits, otherVars, last>>

-----------------------------------------------------------------------------
(* main *)

\* main() reaches the initial full scan.
InitialScan ==
    /\ mainPc = "start"
    /\ mainPc' = "initScan"
    /\ sweeps' = [sweeps EXCEPT ![1] = NewSweep]
    /\ UNCHANGED <<direct, pool, cache, tracked, handlers, cyc, nFail, nChange, limits, otherVars, last>>

\* Subscribe that does not wait for the initial scan.
SubscribeEarly ==
    /\ mainPc \in {"initScan", "scanned"}
    /\ mainPc' = "subscribed"
    /\ UNCHANGED <<direct, pool, cache, tracked, sweeps, handlers, cyc, nFail, nChange, limits, otherVars, last>>

\* The initial scan has returned: startEventListener subscribes.
Subscribe ==
    /\ mainPc = "scanned"
    /\ mainPc' = "subscribed"
    /\ UNCHANGED <<direct, pool, cache, tracked, sweeps, handlers, cyc, nFail, nChange, limits, otherVars, last>>

\* setInterval is called.
Schedule ==
    /\ mainPc = "subscribed"
    /\ mainPc' = "running"
    /\ UNCHANGED <<direct, pool, cache, tracked, sweeps, handlers, cyc, nFail, nChange, limits, otherVars, last>>

\* The interval timer fires: fullScan is called, whatever else is running.
TimerFire ==
    /\ mainPc = "running"
    /\ \E s \in SweepSlots :
        /\ SlotFree(s) /\ \A t \in SweepSlots : t < s => ~SlotFree(t)
        /\ sweeps' = [sweeps EXCEPT ![s] = NewSweep]
        /\ cyc' = StartBatch(s, <<>>)
    /\ UNCHANGED <<direct, pool, cache, tracked, mainPc, handlers, nFail, nChange, limits, otherVars, last>>

-----------------------------------------------------------------------------
(* The event listener *)

Subscribed == mainPc \in {"subscribed", "running"}

FreeHandler == [pc |-> "free", events |-> <<>>, idx |-> 0]
HandlerCycle(h) == <<"event", h, handlers[h].events[handlers[h].idx]>>
\* A callback whose awaited processAccount never settles takes no further step.
HandlerFree(h) ==
    \/ handlers[h].pc = "free"
    \/ handlers[h].pc = "await" /\ cyc[HandlerCycle(h)].pc = "hung"

\* HandlerStart that also processes the accounts tracked before.
HandlerStartAll(h, a) ==
    [c \in CycleIds |->
        IF c[1] = "event" /\ c[2] = h
        THEN (IF a # "" /\ AcctOf(c) \in tracked THEN NewCycle(AcctOf(c)) ELSE FreeCycle)
        ELSE cyc[c]]

\* cyc with the one invocation of callback h for address a (none when a is "").
HandlerStart(h, a) ==
    [c \in CycleIds |->
        IF c[1] = "event" /\ c[2] = h
        THEN (IF AcctOf(c) = a THEN NewCycle(a) ELSE FreeCycle)
        ELSE cyc[c]]

\* People Chain finalizes a block in which the accounts of S started score
\* tracking; a subscribed listener gets the header.
FinalizedBlock(S) ==
    /\ S # {} /\ S \subseteq DOMAIN direct \ tracked
    /\ tracked' = tracked \cup S
    /\ IF Subscribed /\ Alive
       THEN \E h \in HandlerSlots :
              /\ HandlerFree(h) /\ \A g \in HandlerSlots : g < h => ~HandlerFree(g)
              /\ handlers' = [handlers EXCEPT ![h] =
                     [pc |-> "fetch", events |-> FilterSeq(AcctOrder, S), idx |-> 0]]
              /\ cyc' = HandlerStart(h, "")
       ELSE UNCHANGED <<handlers, cyc>>
    /\ UNCHANGED <<direct, pool, cache, mainPc, sweeps, nFail, nChange, limits, otherVars, last>>

\* peopleApi.at(blockHash) and system.events(); a failure ends the callback.
\* The first matching event starts processAccount.
FetchEvents(h, ok) ==
    /\ Alive /\ handlers[h].pc = "fetch" /\ MayFail(ok)
    /\ FailBudget(ok)
    /\ IF ~ok
       THEN /\ handlers' = [handlers EXCEPT ![h] = FreeHandler]
            /\ UNCHANGED cyc
       ELSE /\ InFlight < limits.inFlight
            /\ handlers' = [handlers EXCEPT ![h].pc = "await", ![h].idx = 1]
            /\ cyc' = HandlerStart(h, handlers[h].events[1])
    /\ UNCHANGED <<direct, pool, cache, tracked, mainPc, sweeps, nChange, limits, otherVars, last>>

\* NextEvent that ends the callback when the awaited processAccount rejected.
NextEventAbort(h) ==
    /\ Alive /\ handlers[h].pc = "await" /\ Settled(HandlerCycle(h))
    /\ IF handlers[h].idx < Len(handlers[h].events) /\ cyc[HandlerCycle(h)].pc = "done"
       THEN /\ handlers' = [handlers EXCEPT ![h].idx = @ + 1]
            /\ cyc' = HandlerStart(h, handlers[h].events[handlers[h].idx + 1])
       ELSE /\ handlers' = [handlers EXCEPT ![h] = FreeHandler]
            /\ cyc' = HandlerStart(h, "")
    /\ UNCHANGED <<direct, pool, cache, tracked, mainPc, sweeps, nFail, nChange, limits, otherVars, last>>

\* The awaited processAccount has settled (a rejection is caught and logged):
\* the loop goes on with the next event of the block.
NextEvent(h) ==
    /\ Alive /\ handlers[h].pc = "await" /\ Settled(HandlerCycle(h))
    /\ IF handlers[h].idx < Len(handlers[h].events)
       THEN /\ handlers' = [handlers EXCEPT ![h].idx = @ + 1]
            /\ cyc' = HandlerStart(h, handlers[h].events[handlers[h].idx + 1])
       ELSE /\ handlers' = [handlers EXCEPT ![h] = FreeHandler]
            /\ cyc' = HandlerStart(h, "")
    /\ UNCHANGED <<direct, pool, cache, tracked, mainPc, sweeps, nFail, nChange, limits, otherVars, last>>

-----------------------------------------------------------------------------
(* Asset Hub *)

\* An account unbonds one unit: an unlocking chunk is added.
Unbond(a) ==
    /\ nChange < limits.changes /\ direct[a].stakedAmount > 0
    /\ direct' = [direct EXCEPT ![a].stakedAmount = @ - 1, ![a].unlockingChunksCount = @ + 1]
    /\ nChange' = nChange + 1
    /\ cyc' = Disturb(cyc, a, <<>>)
    /\ last' = [last EXCEPT ![a] = "none"]
    /\ UNCHANGED <<pool, cache, tracked, mainPc, sweeps, handlers, nFail, limits, otherVars>>

-----------------------------------------------------------------------------

(* Startup of the noter bot: credential and connections *)

Chains == {"RelayChain", "AssetHub", "PeopleChain"}

\* Texts over a blank and a word character, as lists of characters.
Texts == {<<>>, <<" ">>, <<"w">>, <<" ", "w">>, <<"w", " ">>, <<" ", "w", " ">>}

\* String.prototype.trim
RECURSIVE trimStart(_)
trimStart(t) == IF t # <<>> /\ Head(t) = " " THEN trimStart(Tail(t)) ELSE t
RECURSIVE trimEnd(_)
trimEnd(t) ==
    IF t # <<>> /\ t[Len(t)] = " " THEN trimEnd(SubSeq(t, 1, Len(t) - 1)) ELSE t
trim(t) == trimEnd(trimStart(t))

\* /run/secrets/noter_mnemonic: absent, present but unreadable, or a file.
SecretFiles ==
    {[state |-> "absent", text |-> <<>>], [state |-> "unreadable", text |-> <<>>]}
    \cup {[state |-> "file", text |-> t] : t \in Texts}
\* process.env.NOTER_MNEMONIC
EnvValues == {[set |-> FALSE, text |-> <<>>]} \cup {[set |-> TRUE, text |-> t] : t \in Texts}

\* loadNoterMnemonic that asks the environment first.
loadNoterMnemonicEnvFirst(secret, env) ==
    IF env.set /\ env.text # <<>>
    THEN [exit |-> FALSE, from |-> "env", mnemonic |-> trim(env.text)]
    ELSE IF secret.state = "file" /\ trim(secret.text) # <<>>
    THEN [exit |-> FALSE, from |-> "secret", mnemonic |-> trim(secret.text)]
    ELSE [exit |-> TRUE, from |-> "none", mnemonic |-> <<>>]

\* exit: process.exit(1) was called.  An empty string is falsy, for the trimmed
\* file content and for the environment variable as it is set.
loadNoterMnemonic(secret, env) ==
    IF secret.state = "file" /\ trim(secret.text) # <<>>
    THEN [exit |-> FALSE, from |-> "secret", mnemonic |-> trim(secret.text)]
    ELSE IF env.set /\ env.text # <<>>
    THEN [exit |-> FALSE, from |-> "env", mnemonic |-> trim(env.text)]
    ELSE [exit |-> TRUE, from |-> "none", mnemonic |-> <<>>]

\* The status the process has exited with; every exit of the program is
\* process.exit(1).
ExitCode == IF mainPc = "exited" THEN 1 ELSE 0

startupVars == <<direct, pool, cache, tracked, sweeps, handlers, cyc, nFail, nChange,
                 limits, last, memo, index, payout>>

\* await cryptoWaitReady(); a rejection goes to main().catch.
CryptoReady(ok) ==
    /\ mainPc = "crypto"
    /\ mainPc' = IF ok THEN "load" ELSE "exited"
    /\ UNCHANGED <<boot, startupVars>>

LoadMnemonic ==
    /\ mainPc = "load"
    /\ LET r == loadNoterMnemonic(boot.secret, boot.env)
       IN IF r.exit
          THEN mainPc' = "exited" /\ UNCHANGED boot
          ELSE /\ mainPc' = "keyring"
               /\ boot' = [boot EXCEPT !.mnemonic = r.mnemonic, !.from = r.from]
    /\ UNCHANGED startupVars

\* keyring.addFromMnemonic: the library may throw on the text it is given.
\* After it the three connectApi calls are made.
AddFromMnemonic(ok) ==
    /\ mainPc = "keyring"
    /\ IF ok
       THEN /\ mainPc' = "connecting"
            /\ boot' = [boot EXCEPT !.conn = [c \in Chains |-> "pending"]]
       ELSE mainPc' = "exited" /\ UNCHANGED boot
    /\ UNCHANGED startupVars

\* Connect in which a failed connection does not reject main.
ConnectNoExit(chain, ok) ==
    /\ mainPc = "connecting" /\ boot.conn[chain] = "pending"
    /\ boot' = [boot EXCEPT !.conn[chain] = IF ok THEN "ok" ELSE "failed"]
    /\ mainPc' = IF \A c \in Chains : boot'.conn[c] # "pending" THEN "start" ELSE mainPc
    /\ UNCHANGED startupVars

\* One connectApi settles.  A rejection rejects Promise.all and main, and the
\* process exits before anything else runs.
Connect(chain, ok) ==
    /\ mainPc = "connecting" /\ boot.conn[chain] = "pending"
    /\ boot' = [boot EXCEPT !.conn[chain] = IF ok THEN "ok" ELSE "failed"]
    /\ mainPc' = IF ok THEN mainPc ELSE "exited"
    /\ UNCHANGED startupVars

TikiResults == {"verified", "missing", "unavailable", "error"}

\* Promise.all has resolved; the tiki check only logs, whatever it finds.
VerifyTiki(result) ==
    /\ mainPc = "connecting" /\ \A c \in Chains : boot.conn[c] = "ok"
    /\ boot' = [boot EXCEPT !.tiki = result]
    /\ mainPc' = "start"
    /\ UNCHANGED startupVars

(* The other programs of the repository, at rest while the noter bot runs *)

\* The noter bot after a start from the secret file with all chains connected.
BootDone ==
    [secret |-> [state |-> "file", text |-> <<"w">>], env |-> [set |-> FALSE, text |-> <<>>],
     mnemonic |-> <<"w">>, from |-> "secret", conn |-> [c \in Chains |-> "ok"],
     tiki |-> "verified"]
NoMemo == "none"
NoIndex == "none"
NoPayout == "none"

OthersAtRest ==
    /\ boot = BootDone
    /\ memo = NoMemo
    /\ index = NoIndex
    /\ payout = NoPayout

InitDirect == [a \in Accounts |-> IF a = "a1" THEN Snap(1, 1, 0) ELSE ZeroSnap]
InitPool == [a \in Accounts |->
                IF a \in {"a1", "a2"}
                THEN [stakedAmount |-> 1, unlockingChunksCount |-> IF a = "a1" THEN 1 ELSE 0]
                ELSE [stakedAmount |-> 0, unlockingChunksCount |-> 0]]
InitCache == [a \in Accounts |->
                [src \in Sources |->
                    IF a = "a1" /\ src = "RelayChain" THEN <<Snap(1, 1, 0)>> ELSE <<>>]]

Init ==
    /\ OthersAtRest
    /\ direct = InitDirect
    /\ pool = InitPool
    /\ cache = InitCache
    /\ tracked = {"a1"}
    /\ mainPc = "start"
    /\ sweeps = [s \in 1..MaxSweepSlots |-> FreeSweep]
    /\ handlers = [h \in 1..MaxHandlers |-> FreeHandler]
    /\ cyc = [c \in AllCycleIds(1..MaxSweepSlots, 1..MaxHandlers, Accounts) |-> FreeCycle]
    /\ nFail = 0
    /\ nChange = 0
    /\ limits = [inFlight |-> MaxInFlight, failures |-> MaxFailures, changes |-> MaxChanges]
    /\ last = [a \in Accounts |-> "none"]

Next ==
    \/ InitialScan
    \/ Subscribe
    \/ Schedule
    \/ TimerFire
    \/ \E s \in SweepSlots, ok \in BOOLEAN : ReadEntries(s, ok)
    \/ \E s \in SweepSlots : SettleBatch(s)
    \/ \E s \in SweepSlots : ScanComplete(s)
    \/ \E c \in CycleIds, ok \in BOOLEAN : CollectDirect(c, ok)
    \/ \E c \in CycleIds, ok \in BOOLEAN : CollectPool(c, ok)
    \/ \E c \in CycleIds, ok \in BOOLEAN : ReadCacheAH(c, ok)
    \/ \E c \in CycleIds, ok \in BOOLEAN : ReadCacheRC(c, ok)
    \/ \E c \in CycleIds : TxIncluded(c)
    \/ \E c \in CycleIds : TxFailed(c)
    \/ \E c \in CycleIds : TxDropped(c)
    \/ \E S \in SUBSET DOMAIN direct : FinalizedBlock(S)
    \/ \E h \in HandlerSlots, ok \in BOOLEAN : FetchEvents(h, ok)
    \/ \E h \in HandlerSlots : NextEvent(h)
    \/ \E a \in DOMAIN direct : Unbond(a)

Spec == Init /\ [][Next]_vars

-----------------------------------------------------------------------------
(* One processAccount invocation, started by the event listener, from every  *)
(* staking state and every cached state of one account within the bounds.    *)

MaxStake == 1       \* largest direct stake and largest pool stake
CycleFailures == 5  \* every remote call of the invocation may fail

StakeVals == 0..MaxStake
DirectVals == {Snap(s, n, u) : s \in StakeVals, n \in 0..1, u \in 0..1}
PoolVals == {[stakedAmount |-> s, unlockingChunksCount |-> u] : s \in StakeVals, u \in 0..1}
CachedVals ==
    {<<>>} \cup {<<Snap(s, n, u)>> : s \in 0..(2 * MaxStake), n \in 0..1, u \in 0..2}
RelayVals == {<<>>, <<ZeroSnap>>, <<Snap(1, 1, 0)>>}

CycleInit ==
    /\ OthersAtRest
    /\ direct \in [{"a1"} -> DirectVals]
    /\ pool \in [{"a1"} -> PoolVals]
    /\ \E ah \in CachedVals, rc \in RelayVals :
          cache = [a \in {"a1"} |-> [src \in Sources |-> IF src = "AssetHub" THEN ah ELSE rc]]
    /\ tracked = {}
    /\ mainPc = "running"
    /\ sweeps = [s \in {} |-> FreeSweep]
    /\ handlers = [h \in {1} |-> FreeHandler]
    /\ cyc = [c \in AllCycleIds({}, {1}, {"a1"}) |-> FreeCycle]
    /\ nFail = 0
    /\ nChange = 0
    /\ limits = [inFlight |-> 1, failures |-> CycleFailures, changes |-> 0]
    /\ last = [a \in {"a1"} |-> "none"]

CycleNext ==
    \/ \E S \in SUBSET DOMAIN direct : FinalizedBlock(S)
    \/ \E h \in HandlerSlots, ok \in BOOLEAN : FetchEvents(h, ok)
    \/ \E h \in HandlerSlots : NextEvent(h)
    \/ \E c \in CycleIds, ok \in BOOLEAN : CollectDirect(c, ok)
    \/ \E c \in CycleIds, ok \in BOOLEAN : CollectPool(c, ok)
    \/ \E c \in CycleIds, ok \in BOOLEAN : ReadCacheAH(c, ok)
    \/ \E c \in CycleIds, ok \in BOOLEAN : ReadCacheRC(c, ok)
    \/ \E c \in CycleIds : TxIncluded(c)
    \/ \E c \in CycleIds : TxFailed(c)
    \/ \E c \in CycleIds : TxDropped(c)

CycleSpec == CycleInit /\ [][CycleNext]_vars

-----------------------------------------------------------------------------
(* The initial full scan over more accounts than one batch holds.  It is the  *)
(* only caller of processAccount and an invocation reads and writes records   *)
(* of its own address only, so its four reads commute with the steps of the   *)
(* other invocations and are taken in one step.                               *)

SweepFailures == 1  \* failed remote calls per behaviour

SweepAccounts == {AcctOrder[k] : k \in 1..Len(AcctOrder)}
\* a1, a2, a3 of the first batch and a11 of the second have no AssetHub
\* record yet; a2 has an old RelayChain record.
Unsynced == {"a1", "a2", "a3", "a11"}

NotOk(oks) == Cardinality({k \in DOMAIN oks : ~oks[k]})

processAccount(c, oks) ==
    /\ Alive /\ cyc[c].pc = "direct"
    /\ nFail + NotOk(oks) <= limits.failures
    /\ nFail' = nFail + NotOk(oks)
    /\ LET address == AcctOf(c)
           ahStakingData == getAssetHubStakingData(address, oks[1])
           poolData == getAssetHubPoolData(address, oks[2])
           combined == combinedData(ahStakingData, poolData)
           ahStakingCached == getCachedData(address, "AssetHub", oks[3])
           relayCached == getCachedData(address, "RelayChain", oks[4])
           updates == ahUpdates(address, combined, poolData, ahStakingCached)
                          \o rcUpdates(address, relayCached)
       IN IF Len(updates) > 0
          THEN /\ cyc' = [cyc EXCEPT ![c] =
                             [@ EXCEPT !.pc = "inflight", !.ah = ahStakingData,
                                       !.poolData = poolData, !.combined = combined,
                                       !.cached = ahStakingCached, !.updates = updates,
                                       !.fail = NotOk(oks) > 0]]
               /\ UNCHANGED last
          ELSE /\ cyc' = [cyc EXCEPT ![c] = [FreeCycle EXCEPT !.pc = "done"]]
               /\ last' = IF cyc[c].ext THEN last
                          ELSE [last EXCEPT ![address] =
                                   IF NotOk(oks) > 0 THEN "any" ELSE "clean"]
    /\ UNCHANGED <<direct, pool, cache, tracked, mainPc, sweeps, handlers, nChange, limits, otherVars>>

SweepInit ==
    /\ OthersAtRest
    /\ direct = [a \in SweepAccounts |->
                    IF a \in {"a1", "a2", "a3"} THEN Snap(1, 1, 0) ELSE ZeroSnap]
    /\ pool = [a \in SweepAccounts |-> [stakedAmount |-> 1, unlockingChunksCount |-> 0]]
    /\ cache = [a \in SweepAccounts |->
                   [src \in Sources |->
                       IF src = "AssetHub"
                       THEN (IF a \in Unsynced THEN <<>> ELSE <<Snap(1, 0, 0)>>)
                       ELSE (IF a = "a2" THEN <<Snap(1, 1, 0)>> ELSE <<>>)]]
    /\ tracked = SweepAccounts
    /\ mainPc = "start"
    /\ sweeps = [s \in {1} |-> FreeSweep]
    /\ handlers = [h \in {} |-> FreeHandler]
    /\ cyc = [c \in AllCycleIds({1}, {}, SweepAccounts) |-> FreeCycle]
    /\ nFail = 0
    /\ nChange = 0
    /\ limits = [inFlight |-> Len(AcctOrder), failures |-> SweepFailures, changes |-> 0]
    /\ last = [a \in SweepAccounts |-> "none"]

SweepNext ==
    \/ InitialScan
    \/ \E s \in SweepSlots, ok \in BOOLEAN : ReadEntries(s, ok)
    \/ \E s \in SweepSlots : SettleBatch(s)
    \/ \E s \in SweepSlots : PauseOver(s)
    \/ \E s \in SweepSlots : ScanComplete(s)
    \/ \E c \in CycleIds, oks \in [1..4 -> BOOLEAN] : processAccount(c, oks)
    \/ \E c \in CycleIds : TxIncluded(c)
    \/ \E c \in CycleIds : TxFailed(c)
    \/ \E c \in CycleIds : TxDropped(c)

SweepSpec == SweepInit /\ [][SweepNext]_vars

-----------------------------------------------------------------------------
(* The bot under fair scheduling: a remote call that can succeed eventually  *)
(* does, a transaction that can be included eventually is, the timer keeps   *)
(* firing.  Failures and staking changes are finitely many.                  *)

LiveFailures == 1   \* failed remote calls per behaviour
LiveChanges == 1    \* staking changes on Asset Hub per behaviour
LiveInFlight == 2   \* processAccount invocations running at a time

LiveSlots == {1}
LiveCycleIds == AllCycleIds(LiveSlots, LiveSlots, Accounts)

LiveInit ==
    /\ OthersAtRest
    /\ direct = InitDirect
    /\ pool = InitPool
    /\ cache = InitCache
    /\ tracked = {"a1"}
    /\ mainPc = "start"
    /\ sweeps = [s \in LiveSlots |-> FreeSweep]
    /\ handlers = [h \in LiveSlots |-> FreeHandler]
    /\ cyc = [c \in LiveCycleIds |-> FreeCycle]
    /\ nFail = 0
    /\ nChange = 0
    /\ limits = [inFlight |-> LiveInFlight, failures |-> LiveFailures,
                 changes |-> LiveChanges]
    /\ last = [a \in Accounts |-> "none"]

Fairness ==
    /\ WF_vars(InitialScan) /\ WF_vars(Subscribe) /\ WF_vars(Schedule)
    /\ WF_vars(TimerFire)
    /\ \A s \in LiveSlots :
          /\ WF_vars(ReadEntries(s, TRUE))
          /\ WF_vars(SettleBatch(s))
          /\ WF_vars(ScanComplete(s))
    /\ \A h \in LiveSlots :
          /\ WF_vars(FetchEvents(h, TRUE))
          /\ WF_vars(NextEvent(h))
    /\ \A c \in LiveCycleIds :
          /\ WF_vars(CollectDirect(c, TRUE))
          /\ WF_vars(CollectPool(c, TRUE))
          /\ WF_vars(ReadCacheAH(c, TRUE))
          /\ WF_vars(ReadCacheRC(c, TRUE))
          /\ WF_vars(TxIncluded(c))

LiveSpec == LiveInit /\ [][Next]_vars /\ Fairness

-----------------------------------------------------------------------------
(* getAssetHubPoolData on its own: one invocation at its pool query, for every *)
(* state of the pool pallet and every outcome of its two remote queries.  In   *)
(* this specification pool holds the case of the query.                        *)

MaxPoints == 2      \* largest points of a pool member
MaxEras == 2        \* largest number of unbonding eras of a pool member

MemberVals ==
    {<<>>} \cup {<<[points |-> p, unbondingEras |-> e]>> : p \in 0..MaxPoints, e \in 0..MaxEras}
PoolCases ==
    [hasPools : BOOLEAN, member : MemberVals, membersOk : BOOLEAN, bondedOk : BOOLEAN]

PoolInit ==
    /\ OthersAtRest
    /\ direct = [a \in {"a1"} |-> ZeroSnap]
    /\ pool \in [{"a1"} -> PoolCases]
    /\ cache = [a \in {"a1"} |-> [src \in Sources |-> <<>>]]
    /\ tracked = {"a1"}
    /\ mainPc = "running"
    /\ sweeps = [s \in {} |-> FreeSweep]
    /\ handlers = [h \in {1} |-> [pc |-> "await", events |-> <<"a1">>, idx |-> 1]]
    /\ cyc = [c \in AllCycleIds({}, {1}, {"a1"}) |-> [FreeCycle EXCEPT !.pc = "pool"]]
    /\ nFail = 0
    /\ nChange = 0
    /\ limits = [inFlight |-> 1, failures |-> 0, changes |-> 0]
    /\ last = [a \in {"a1"} |-> "none"]

\* The await of getAssetHubPoolData in processAccount.
PoolLookup(c) ==
    /\ cyc[c].pc = "pool"
    /\ LET p == pool[AcctOf(c)]
           pd == poolQuery(p.hasPools, p.member, p.membersOk, p.bondedOk)
       IN cyc' = [cyc EXCEPT ![c].pc = "cacheAH",
                             ![c].poolData = pd,
                             ![c].combined = combinedData(cyc[c].ah, pd),
                             ![c].fail = pd.queryFailed]
    /\ UNCHANGED <<direct, pool, cache, tracked, mainPc, sweeps, handlers, nFail, nChange,
                   limits, otherVars, last>>

PoolNext == \E c \in CycleIds : PoolLookup(c)

PoolSpec == PoolInit /\ [][PoolNext]_vars

-----------------------------------------------------------------------------
(* The event listener and the periodic fullScans racing on one account that   *)
(* starts score tracking after the initial scan.  No remote read fails and    *)
(* Asset Hub does not change; a transaction may be rejected (two signAndSend  *)
(* of the same key in flight can take the same nonce).                        *)

RaceInFlight == 3   \* processAccount invocations running at a time
RaceRejections == 1 \* rejected transactions per behaviour

RaceSlots == {1, 2}
RaceDirect == [a \in {"a1"} |-> Snap(1, 1, 0)]
RacePool == [a \in {"a1"} |-> [stakedAmount |-> 1, unlockingChunksCount |-> 1]]
\* An AssetHub record from before the account joined a pool, and an old
\* RelayChain record.
RaceCache == [a \in {"a1"} |-> [src \in Sources |-> <<Snap(1, 1, 0)>>]]

RaceInit ==
    /\ OthersAtRest
    /\ direct = RaceDirect
    /\ pool = RacePool
    /\ cache = RaceCache
    /\ tracked = {}
    /\ mainPc = "start"
    /\ sweeps = [s \in RaceSlots |-> FreeSweep]
    /\ handlers = [h \in {1} |-> FreeHandler]
    /\ cyc = [c \in AllCycleIds(RaceSlots, {1}, {"a1"}) |-> FreeCycle]
    /\ nFail = 0
    /\ nChange = 0
    /\ limits = [inFlight |-> RaceInFlight, failures |-> RaceRejections, changes |-> 0]
    /\ last = [a \in {"a1"} |-> "none"]

RaceNext ==
    \/ InitialScan
    \/ Subscribe
    \/ Schedule
    \/ TimerFire
    \/ \E s \in SweepSlots : ReadEntries(s, TRUE)
    \/ \E s \in SweepSlots : SettleBatch(s)
    \/ \E s \in SweepSlots : ScanComplete(s)
    \/ \E c \in CycleIds : CollectDirect(c, TRUE)
    \/ \E c \in CycleIds : CollectPool(c, TRUE)
    \/ \E c \in CycleIds : ReadCacheAH(c, TRUE)
    \/ \E c \in CycleIds : ReadCacheRC(c, TRUE)
    \/ \E c \in CycleIds : TxIncluded(c)
    \/ \E c \in CycleIds : TxFailed(c)
    \/ \E S \in SUBSET DOMAIN direct : FinalizedBlock(S)
    \/ \E h \in HandlerSlots : FetchEvents(h, TRUE)
    \/ \E h \in HandlerSlots : NextEvent(h)

RaceSpec == RaceInit /\ [][RaceNext]_vars

-----------------------------------------------------------------------------
(* Properties *)

\* The updates of source src an invocation has enqueued.
UpdatesFor(c, src) == {k \in 1..Len(cyc[c].updates) : cyc[c].updates[k].source = src}
\* The invocation has taken the decision of step 3 and has not returned.
Decided(c) == cyc[c].pc \in {"cacheRC", "inflight"}
\* The pool query failed and the cache read holds more stake than the
\* combined data.
WouldDowngrade(c) ==
    /\ cyc[c].poolData.queryFailed
    /\ cyc[c].cached # <<>>
    /\ cyc[c].cached[1].stakedAmount > cyc[c].combined.stakedAmount

NeverSubmitsIncomplete ==
    \A c \in CycleIds :
        (Decided(c) /\ cyc[c].poolData.queryFailed) => UpdatesFor(c, "AssetHub") = {}

\* C10: with no cached AssetHub record read, exactly one AssetHub update is
\* enqueued, for the account and with the combined snapshot, whatever the
\* snapshot is and whether or not the pool query failed.
BootstrapSubmits ==
    \A c \in CycleIds :
        (Decided(c) /\ cyc[c].cached = <<>>) =>
            /\ Cardinality(UpdatesFor(c, "AssetHub")) = 1
            /\ \A k \in UpdatesFor(c, "AssetHub") :
                  /\ cyc[c].updates[k].data = cyc[c].combined
                  /\ cyc[c].updates[k].address = AcctOf(c)

\* C10: the all-zero snapshot of a failed pool query is enqueued when the
\* cache of the account holds nothing.
BootstrapWitness ==
    \E c \in CycleIds :
        /\ cyc[c].pc = "inflight" /\ cyc[c].cached = <<>>
        /\ cyc[c].poolData.queryFailed /\ cyc[c].combined = ZeroSnap
        /\ cache[AcctOf(c)]["AssetHub"] = <<>>
        /\ UpdatesFor(c, "AssetHub") # {}

\* The combined snapshot Asset Hub holds for an account.
TrueCombined(a) ==
    combinedData(direct[a],
                 [stakedAmount |-> pool[a].stakedAmount, nominationsCount |-> 0,
                  unlockingChunksCount |-> pool[a].unlockingChunksCount])
CachedStake(f, a) == f[a]["AssetHub"][1].stakedAmount

\* C2: whatever query fails, a cached nonzero AssetHub stake is never replaced
\* by a smaller one that is below the stake the account holds on Asset Hub.
NeverRegresses ==
    [][\A a \in DOMAIN cache :
          (/\ cache[a]["AssetHub"] # <<>> /\ cache'[a]["AssetHub"] # <<>>
           /\ CachedStake(cache, a) > 0
           /\ CachedStake(cache', a) < CachedStake(cache, a))
          => CachedStake(cache', a) >= TrueCombined(a).stakedAmount]_vars

\* A fullScan that has been called and has not returned.
SweepRunning(s) == sweeps[s].pc # "free"

\* C7: at most one fullScan runs at a time.
OneSweepAtATime == Cardinality({s \in SweepSlots : SweepRunning(s)}) <= 1

\* The invocation was called right after an undisturbed invocation for the
\* same address returned, and nothing else has changed Asset Hub or the cache
\* of the address since.
InSuccession(c) == cyc[c].after # "none" /\ ~cyc[c].ext

EventFastPath ==
    /\ [](\A c \in CycleIds :
            (c[1] = "event" /\ cyc[c].pc # "free") =>
                /\ handlers[c[2]].pc = "await"
                /\ AcctOf(c) = handlers[c[2]].events[handlers[c[2]].idx])
    /\ [][\A h \in HandlerSlots :
            /\ (handlers[h].pc = "fetch" /\ handlers'[h].pc = "await")
                => cyc'[<<"event", h, handlers[h].events[1]>>].pc = "direct"
            /\ handlers'[h] # handlers[h]
                => /\ sweeps' = sweeps
                   /\ \A c \in CycleIds : c[1] = "sweep" => cyc'[c] = cyc[c]]_vars

\* C9: the invocation for a2 started by its event has sent its update while no
\* fullScan runs and nothing runs for the tracked account a1.
EventFastPathWitness ==
    /\ "a1" \in tracked
    /\ \A s \in SweepSlots : ~SweepRunning(s)
    /\ \A c \in CycleIds : AcctOf(c) = "a1" => cyc[c].pc = "free"
    /\ \E h \in HandlerSlots :
          /\ handlers[h].pc = "await"
          /\ cyc[<<"event", h, "a2">>].pc = "inflight"

\* The invocation has sent a transaction.
Submitted(c) == cyc[c].pc = "inflight" \/ (cyc[c].pc = "done" /\ cyc[c].updates # <<>>)
Requiring(s) == {c \in SweepCycles(s) : cyc[c].updates # <<>>}
CallsOf(c) == Range(buildTx(cyc[c].updates).calls)

Rejected(s) == {c \in BatchCycles(s) : cyc[c].pc = "rejected"}

\* C8: a rejection of processAccount changes no other invocation and no
\* fullScan; when the batch has settled the rejection is counted once in
\* errorCount, the fulfilled values are added to updatedCount, and fullScan
\* goes on with the next batch until none is left, without throwing.
SweepIsolation ==
    /\ [][\A c \in CycleIds :
            (cyc[c].pc # "rejected" /\ cyc'[c].pc = "rejected") =>
                /\ sweeps' = sweeps /\ cache' = cache
                /\ \A d \in CycleIds \ {c} : cyc'[d] = cyc[d]]_vars
    /\ [][\A s \in SweepSlots :
            (sweeps[s].pc = "batch" /\ sweeps'[s] # sweeps[s]) =>
                /\ \A c \in BatchCycles(s) : Settled(c)
                /\ sweeps'[s].errorCount = sweeps[s].errorCount + Cardinality(Rejected(s))
                /\ sweeps'[s].updatedCount =
                       sweeps[s].updatedCount
                       + SumOver(BatchCycles(s) \ Rejected(s),
                                 [c \in CycleIds |-> Len(cyc[c].updates)])
                /\ IF sweeps[s].i + BATCH_SIZE < Len(sweeps[s].entries)
                   THEN sweeps'[s].pc = "pause"
                   ELSE sweeps'[s].pc = "done"]_vars
    /\ [][\A s \in SweepSlots :
            (sweeps[s].pc = "pause" /\ sweeps'[s] # sweeps[s]) =>
                /\ sweeps'[s].pc = "batch"
                /\ sweeps'[s].i = sweeps[s].i + BATCH_SIZE
                /\ \A a \in Range(BatchOf(sweeps[s].entries, sweeps'[s].i)) :
                      cyc'[<<"sweep", s, a>>].pc = "direct"]_vars
    /\ [](\A s \in SweepSlots :
            sweeps[s].pc = "done" =>
                /\ sweeps[s].i + BATCH_SIZE >= Len(sweeps[s].entries)
                /\ sweeps[s].errorCount <= nFail)

\* C8: the transaction of one account of the first batch was rejected; the
\* other accounts of the batch were updated, the second batch was processed
\* and fullScan is about to return.
SweepIsolationWitness ==
    \E s \in SweepSlots :
        /\ sweeps[s].pc = "done"
        /\ Len(sweeps[s].entries) > BATCH_SIZE
        /\ sweeps[s].errorCount = 1
        /\ cache["a1"]["AssetHub"] = <<>>
        /\ cache["a2"]["AssetHub"] # <<>> /\ cache["a3"]["AssetHub"] # <<>>
        /\ cache["a11"]["AssetHub"] # <<>>
        /\ sweeps[s].updatedCount = 4

\* The cached AssetHub snapshot of every tracked account is the combined
\* snapshot of Asset Hub.
Consistent == \A a \in tracked : cache[a]["AssetHub"] = <<TrueCombined(a)>>

\* C5: with finitely many failures and staking changes and under fair
\* scheduling, the cache is consistent from some point on.
EventuallyConsistent == <>[]Consistent

\* main() has exited on a failed initial scan, or awaits an initial scan that
\* never returns.
InitialScanLost ==
    mainPc = "exited" \/ (mainPc = "initScan" /\ \E s \in SweepSlots : Blocked(s))

\* The cache is consistent from some point on when the initial scan returns.
ConsistentUnlessLost == <>[]InitialScanLost \/ <>[]Consistent

\* The invocation has built combinedData and has not returned.
Combined(c) == cyc[c].pc \in {"cacheAH", "cacheRC", "inflight"}

\* C11: the combined snapshot of an invocation has the direct stake plus the
\* pool stake, the direct nominations count, and the direct plus the pool
\* unlocking chunks; an AssetHub update carries exactly this snapshot.
CombinationRule ==
    \A c \in CycleIds :
        Combined(c) =>
            /\ cyc[c].combined.stakedAmount =
                   cyc[c].ah.stakedAmount + cyc[c].poolData.stakedAmount
            /\ cyc[c].combined.nominationsCount = cyc[c].ah.nominationsCount
            /\ cyc[c].combined.unlockingChunksCount =
                   cyc[c].ah.unlockingChunksCount + cyc[c].poolData.unlockingChunksCount
            /\ \A k \in UpdatesFor(c, "AssetHub") : cyc[c].updates[k].data = cyc[c].combined

\* C11: direct {1,1,1} and pool {1,-,1} were combined to {2,1,2}, which is
\* being submitted.
CombinationWitness ==
    \E c \in CycleIds :
        /\ cyc[c].pc = "inflight"
        /\ cyc[c].ah = Snap(1, 1, 1)
        /\ cyc[c].poolData.stakedAmount = 1 /\ cyc[c].poolData.unlockingChunksCount = 1
        /\ cyc[c].poolData.nominationsCount = 0
        /\ \E k \in UpdatesFor(c, "AssetHub") : cyc[c].updates[k].data = Snap(2, 1, 2)

\* The fresh and the cached snapshot differ in one of the three fields.
Differ(fresh, cached) ==
    \E f \in {"stakedAmount", "nominationsCount", "unlockingChunksCount"} :
        fresh[f] # cached[f]

\* C12: an AssetHub update is enqueued exactly when no cached record was read,
\* or the combined snapshot differs from it in some field and it is not the
\* case that the pool query failed and the combined stake is below the cached
\* one; a snapshot equal to the cached one is never enqueued.
DiffDecisionRule ==
    \A c \in CycleIds :
        Decided(c) =>
            LET fresh == cyc[c].combined
                cached == cyc[c].cached
                submit == \/ cached = <<>>
                          \/ /\ Differ(fresh, cached[1])
                             /\ ~(/\ cyc[c].poolData.queryFailed
                                  /\ fresh.stakedAmount < cached[1].stakedAmount)
            IN /\ (UpdatesFor(c, "AssetHub") # {}) <=> submit
               /\ cached = <<fresh>> => UpdatesFor(c, "AssetHub") = {}

\* C12: the pool query failed, the cached stake equals the combined one and
\* another field differs: the update is submitted.
DiffDecisionWitness ==
    \E c \in CycleIds :
        /\ cyc[c].pc = "inflight"
        /\ cyc[c].poolData.queryFailed
        /\ cyc[c].cached # <<>>
        /\ cyc[c].cached[1].stakedAmount = cyc[c].combined.stakedAmount
        /\ cyc[c].cached[1].stakedAmount > 0
        /\ Differ(cyc[c].combined, cyc[c].cached[1])
        /\ UpdatesFor(c, "AssetHub") # {}

\* The cache f with every update of invocation c written.
AllApplied(f, c) ==
    [a \in DOMAIN f |->
        [src \in Sources |->
            LET K == {k \in UpdatesFor(c, src) : cyc[c].updates[k].address = a}
            IN IF K = {} THEN f[a][src]
               ELSE <<cyc[c].updates[CHOOSE k \in K : TRUE].data>>]]

\* C13: an invocation with no update sends nothing and leaves the cache alone;
\* one with updates sends one transaction, the single call or a batchAll of
\* all its calls, once; when the transaction settles either every update is
\* written to the cache or none is, and nothing else writes the cache.
SubmitterRule ==
    /\ [](\A c \in CycleIds :
            cyc[c].pc = "inflight" =>
                /\ Len(cyc[c].updates) >= 1
                /\ buildTx(cyc[c].updates).calls = cyc[c].updates
                /\ (buildTx(cyc[c].updates).kind = "single") <=> (Len(cyc[c].updates) = 1))
    /\ [][/\ \A c \in CycleIds :
              /\ (cyc[c].pc # "inflight" /\ cyc'[c].pc = "inflight")
                    => (cyc[c].pc = "cacheRC" /\ cache' = cache)
              /\ (cyc[c].pc = "cacheRC" /\ cyc'[c].pc = "done") => cache' = cache
              /\ (cyc[c].pc = "inflight" /\ cyc'[c].pc # "inflight")
                    => \/ cyc'[c].pc = "done" /\ cache' = AllApplied(cache, c)
                       \/ cyc'[c].pc \in {"rejected", "hung"} /\ cache' = cache
          /\ cache' # cache
                => \E c \in CycleIds : cyc[c].pc = "inflight" /\ cyc'[c].pc = "done"]_vars

\* C13: the batchAll of an AssetHub update and a RelayChain clear was
\* included and both records are written.
SubmitterWitness ==
    \E c \in CycleIds :
        /\ cyc[c].pc = "done" /\ Len(cyc[c].updates) = 2
        /\ cyc[c].updates[1].data.stakedAmount > 0
        /\ cache[AcctOf(c)]["AssetHub"] = <<cyc[c].updates[1].data>>
        /\ cache[AcctOf(c)]["RelayChain"] = <<ZeroSnap>>

\* C14: the update list of an invocation holds at most one entry per source,
\* every entry for the address of the invocation and for one of the two
\* sources.
OneUpdatePerKey ==
    \A c \in CycleIds :
        /\ \A src \in Sources : Cardinality(UpdatesFor(c, src)) <= 1
        /\ \A k \in 1..Len(cyc[c].updates) :
              /\ cyc[c].updates[k].address = AcctOf(c)
              /\ cyc[c].updates[k].source \in Sources

\* C14: an invocation submits one AssetHub and one RelayChain entry.
OneUpdatePerKeyWitness ==
    \E c \in CycleIds :
        /\ cyc[c].pc = "inflight"
        /\ Cardinality(UpdatesFor(c, "AssetHub")) = 1
        /\ Cardinality(UpdatesFor(c, "RelayChain")) = 1

\* The invocation is past its direct staking query and holds a result that is
\* not the ledger's: where Asset Hub does not change, the query has thrown.
DirectQueryFailed(c) ==
    /\ cyc[c].pc \in {"pool", "cacheAH", "cacheRC", "inflight"}
    /\ cyc[c].ah # direct[AcctOf(c)]

\* C17: an invocation whose direct staking query failed enqueues and submits
\* no update.
DirectFailureAborts ==
    \A c \in CycleIds :
        DirectQueryFailed(c) => (cyc[c].updates = <<>> /\ cyc[c].pc # "inflight")

ClearsRelay(u, a) == u = [address |-> a, source |-> "RelayChain", data |-> ZeroSnap]

PoolReturned(c) == cyc[c].pc = "cacheAH"
\* A remote query that getAssetHubPoolData made has thrown.
PoolRpcError(p) == p.hasPools /\ (~p.membersOk \/ (p.member # <<>> /\ ~p.bondedOk))

\* C18 as stated: an error of the membership query or of the bondedPools
\* query gives the zero snapshot with queryFailed set, and without an error
\* queryFailed is clear.
PoolErrorsFlagged ==
    \A c \in CycleIds :
        PoolReturned(c) =>
            IF PoolRpcError(pool[AcctOf(c)])
            THEN cyc[c].poolData = FailedPool
            ELSE ~cyc[c].poolData.queryFailed

\* C18 amended: without the pool pallet or without a membership the result is
\* the zero snapshot with queryFailed clear; an error of the membership query
\* gives the zero snapshot with queryFailed set; a membership gives its points
\* and the number of its unbonding eras with queryFailed clear, whether the
\* bondedPools query throws or not.
PoolResultRule ==
    \A c \in CycleIds :
        PoolReturned(c) =>
            LET p == pool[AcctOf(c)]
                r == cyc[c].poolData
            IN /\ ~p.hasPools => r = ZeroPool
               /\ (p.hasPools /\ ~p.membersOk) => r = FailedPool
               /\ (p.hasPools /\ p.membersOk /\ p.member = <<>>) => r = ZeroPool
               /\ (p.hasPools /\ p.membersOk /\ p.member # <<>>) =>
                     /\ r.stakedAmount = p.member[1].points
                     /\ r.nominationsCount = 0
                     /\ r.unlockingChunksCount = p.member[1].unbondingEras
                     /\ ~r.queryFailed

\* C18: the bondedPools query of a member with points has thrown and the
\* result is the member's snapshot with queryFailed clear.
PoolResultWitness ==
    \E c \in CycleIds :
        /\ PoolReturned(c)
        /\ pool[AcctOf(c)].hasPools /\ pool[AcctOf(c)].membersOk
        /\ pool[AcctOf(c)].member # <<>> /\ ~pool[AcctOf(c)].bondedOk
        /\ cyc[c].poolData.stakedAmount = MaxPoints
        /\ cyc[c].poolData.unlockingChunksCount = 1
        /\ ~cyc[c].poolData.queryFailed

\* C16: the promise of every submitStakingDetails call settles, and every
\* fullScan that has started its batches returns.
StalledCallSettles ==
    /\ \A c \in LiveCycleIds : (cyc[c].pc = "inflight") ~> Settled(c)
    /\ \A s \in LiveSlots : (sweeps[s].pc = "batch") ~> (sweeps[s].pc = "free")

\* The updates an invocation for a with no failed read computes of the
\* present state of Asset Hub and of the cache.
ExpectedUpdates(a) ==
    (IF cache[a]["AssetHub"] # <<TrueCombined(a)>>
     THEN <<[address |-> a, source |-> "AssetHub", data |-> TrueCombined(a)]>> ELSE <<>>)
    \o (IF cache[a]["RelayChain"] # <<>> /\ cache[a]["RelayChain"][1].stakedAmount > 0
        THEN <<[address |-> a, source |-> "RelayChain", data |-> ZeroSnap]>> ELSE <<>>)

\* The invocation was called right after an undisturbed invocation for the
\* same address was rejected, and has had no failed read and no disturbance.
RetryOfRejected(c) == cyc[c].after = "rejected" /\ ~cyc[c].ext /\ ~cyc[c].fail

\* C15: the rejection of a transaction leaves the cache, every fullScan, every
\* callback and every other invocation as they were; the fullScan counts it
\* as an error and goes on; the next invocation for the address, its reads
\* succeeding, submits the updates of the unchanged state again.
DispatchErrorRetry ==
    /\ [][\A c \in CycleIds :
            (cyc[c].pc = "inflight" /\ cyc'[c].pc = "rejected") =>
                /\ cache' = cache /\ sweeps' = sweeps /\ handlers' = handlers
                /\ \A d \in CycleIds \ {c} : cyc'[d] = cyc[d]]_vars
    /\ [][\A s \in SweepSlots :
            (sweeps[s].pc = "batch" /\ ~Blocked(s) /\ sweeps'[s] # sweeps[s]) =>
                /\ sweeps'[s].pc \in {"batch", "pause", "done"}
                /\ sweeps'[s].errorCount - sweeps[s].errorCount =
                       Cardinality({c \in BatchCycles(s) : cyc[c].pc = "rejected"})]_vars
    /\ [][\A c \in CycleIds :
            (/\ cyc[c].pc = "cacheRC" /\ RetryOfRejected(c)
             /\ cyc'[c].pc # "cacheRC" /\ nFail' = nFail)
            => /\ cyc'[c].pc = "inflight"
               /\ cyc'[c].updates = ExpectedUpdates(AcctOf(c))
               /\ cyc'[c].updates # <<>>]_vars

\* C15: the invocation that follows a rejected one submits the AssetHub
\* update again.
DispatchErrorWitness ==
    \E c \in CycleIds :
        /\ cyc[c].pc = "inflight" /\ RetryOfRejected(c)
        /\ cyc[c].updates = ExpectedUpdates(AcctOf(c))
        /\ UpdatesFor(c, "AssetHub") # {}
        /\ nFail = 1

\* The cache a single invocation for a1 leaves when it starts from RaceCache.
SingleCycleCache ==
    [a \in {"a1"} |->
        [src \in Sources |->
            IF src = "AssetHub"
            THEN <<Snap(RaceDirect[a].stakedAmount + RacePool[a].stakedAmount,
                        RaceDirect[a].nominationsCount,
                        RaceDirect[a].unlockingChunksCount + RacePool[a].unlockingChunksCount)>>
            ELSE <<ZeroSnap>>]]

EventCycles(a) == {c \in CycleIds : c[1] = "event" /\ AcctOf(c) = a}
ScanCycles(a) == {c \in CycleIds : c[1] = "sweep" /\ AcctOf(c) = a}
\* The invocation has returned after its transaction was included.
Wrote(c) == cyc[c].pc = "done" /\ cyc[c].updates # <<>>

\* C20: whatever the interleaving of the callback's and the fullScans'
\* invocations for an account, every record of the cache is the initial one or
\* the one a single invocation writes, a record once written stays, the cache
\* is the single invocation's when an invocation of each path has returned,
\* and an invocation called after one has returned enqueues nothing.
RaceSafety ==
    /\ [](\A a \in DOMAIN cache :
            /\ \A src \in Sources :
                  cache[a][src] \in {RaceCache[a][src], SingleCycleCache[a][src]}
            /\ (\E e \in EventCycles(a), w \in ScanCycles(a) :
                    cyc[e].pc = "done" /\ cyc[w].pc = "done")
                => cache[a] = SingleCycleCache[a])
    /\ [][\A a \in DOMAIN cache : \A src \in Sources :
            cache[a][src] = SingleCycleCache[a][src] => cache'[a][src] = cache[a][src]]_vars
    /\ [](\A c \in CycleIds :
            (Decided(c) /\ cyc[c].after = "clean") => cyc[c].updates = <<>>)

\* C20: the invocation of the callback and the one of a fullScan have both
\* submitted their updates for a1 and returned, and an invocation of the next
\* fullScan has found nothing to enqueue.
RaceSafetyWitness ==
    /\ \E e \in EventCycles("a1"), w \in ScanCycles("a1") : Wrote(e) /\ Wrote(w)
    /\ cache["a1"] = SingleCycleCache["a1"]
    /\ \E z \in ScanCycles("a1") :
          cyc[z].pc = "cacheRC" /\ cyc[z].after = "clean" /\ cyc[z].updates = <<>>

-----------------------------------------------------------------------------
(* The event watcher under failures: two accounts start score tracking, in   *)
(* one finalized block or in two; fetching a block's events may fail and a    *)
(* transaction may be rejected.  Asset Hub does not change.                   *)

EventFailures == 2  \* failed event fetches and rejected transactions per behaviour
EventInFlight == 2  \* processAccount invocations running at a time

EventInit ==
    /\ OthersAtRest
    /\ direct = [a \in Accounts |-> Snap(1, 1, 0)]
    /\ pool = [a \in Accounts |-> [stakedAmount |-> 0, unlockingChunksCount |-> 0]]
    /\ cache = [a \in Accounts |-> [src \in Sources |-> <<>>]]
    /\ tracked = {}
    /\ mainPc = "start"
    /\ sweeps = [s \in {1} |-> FreeSweep]
    /\ handlers = [h \in {1, 2} |-> FreeHandler]
    /\ cyc = [c \in AllCycleIds({1}, {1, 2}, Accounts) |-> FreeCycle]
    /\ nFail = 0
    /\ nChange = 0
    /\ limits = [inFlight |-> EventInFlight, failures |-> EventFailures, changes |-> 0]
    /\ last = [a \in Accounts |-> "none"]

EventNext ==
    \/ InitialScan
    \/ Subscribe
    \/ Schedule
    \/ \E s \in SweepSlots : ReadEntries(s, TRUE)
    \/ \E s \in SweepSlots : SettleBatch(s)
    \/ \E s \in SweepSlots : ScanComplete(s)
    \/ \E c \in CycleIds : CollectDirect(c, TRUE)
    \/ \E c \in CycleIds : CollectPool(c, TRUE)
    \/ \E c \in CycleIds : ReadCacheAH(c, TRUE)
    \/ \E c \in CycleIds : ReadCacheRC(c, TRUE)
    \/ \E c \in CycleIds : TxIncluded(c)
    \/ \E c \in CycleIds : TxFailed(c)
    \/ \E S \in SUBSET DOMAIN direct : FinalizedBlock(S)
    \/ \E h \in HandlerSlots, ok \in BOOLEAN : FetchEvents(h, ok)
    \/ \E h \in HandlerSlots : NextEvent(h)

EventSpec == EventInit /\ [][EventNext]_vars

\* The callbacks that are in their loop over the events of a block.
Awaiting == {h \in HandlerSlots : handlers[h].pc = "await"}

\* C21: a failed fetch of a block's events ends that callback only; after a
\* rejected processAccount the callback goes on with the next matched event
\* of the block (or returns after the last); neither ends the subscription,
\* and the header of every later block with a matched event still gets its
\* callback.
EventResilience ==
    [][/\ Subscribed => Subscribed'
       /\ \A h \in HandlerSlots :
            handlers[h].pc = "fetch" /\ handlers'[h].pc = "free"
            => cyc' = cyc /\ mainPc' = mainPc
       /\ \A h \in Awaiting :
            cyc[HandlerCycle(h)].pc = "rejected" /\ handlers'[h] # handlers[h]
            => /\ mainPc' = mainPc
               /\ IF handlers[h].idx < Len(handlers[h].events)
                  THEN /\ handlers'[h] = [handlers[h] EXCEPT !.idx = @ + 1]
                       /\ cyc'[<<"event", h, handlers[h].events[handlers[h].idx + 1]>>].pc
                             = "direct"
                  ELSE handlers'[h] = FreeHandler
       /\ Subscribed /\ tracked' # tracked
            => \E h \in HandlerSlots :
                  /\ handlers'[h].pc = "fetch"
                  /\ handlers'[h].events = FilterSeq(AcctOrder, tracked' \ tracked)]_vars

\* The second matched event of a block is being processed after the first one's
\* processAccount was rejected, with the watcher subscribed.
EventResilienceWitness ==
    /\ Subscribed
    /\ \E h \in Awaiting :
          /\ handlers[h].idx = 2
          /\ last[handlers[h].events[1]] = "rejected"
          /\ cyc[HandlerCycle(h)].pc \in RunningPcs

-----------------------------------------------------------------------------
(* The noter bot from the start of main: any secret file and environment,     *)
(* any outcome of the connections; one tracked account with no cached record, *)
(* so that the initial scan submits.  No remote call fails after startup.     *)

StartInFlight == 1  \* processAccount invocations running at a time

StartCache == [a \in {"a1"} |-> [src \in Sources |-> <<>>]]

StartInit ==
    /\ boot \in [secret : SecretFiles, env : EnvValues, mnemonic : {<<>>}, from : {"none"},
                 conn : {[c \in Chains |-> "idle"]}, tiki : {"unchecked"}]
    /\ memo = NoMemo
    /\ index = NoIndex
    /\ payout = NoPayout
    /\ direct = [a \in {"a1"} |-> Snap(1, 1, 0)]
    /\ pool = [a \in {"a1"} |-> [stakedAmount |-> 0, unlockingChunksCount |-> 0]]
    /\ cache = StartCache
    /\ tracked = {"a1"}
    /\ mainPc = "crypto"
    /\ sweeps = [s \in {1} |-> FreeSweep]
    /\ handlers = [h \in {1} |-> FreeHandler]
    /\ cyc = [c \in AllCycleIds({1}, {1}, {"a1"}) |-> FreeCycle]
    /\ nFail = 0
    /\ nChange = 0
    /\ limits = [inFlight |-> StartInFlight, failures |-> 0, changes |-> 0]
    /\ last = [a \in {"a1"} |-> "none"]

StartNext ==
    \/ \E ok \in BOOLEAN : CryptoReady(ok)
    \/ LoadMnemonic
    \/ \E ok \in BOOLEAN : AddFromMnemonic(ok)
    \/ \E chain \in Chains, ok \in BOOLEAN : Connect(chain, ok)
    \/ \E result \in TikiResults : VerifyTiki(result)
    \/ InitialScan
    \/ Subscribe
    \/ Schedule
    \/ TimerFire
    \/ \E s \in SweepSlots : ReadEntries(s, TRUE)
    \/ \E s \in SweepSlots : SettleBatch(s)
    \/ \E s \in SweepSlots : ScanComplete(s)
    \/ \E c \in CycleIds : CollectDirect(c, TRUE)
    \/ \E c \in CycleIds : CollectPool(c, TRUE)
    \/ \E c \in CycleIds : ReadCacheAH(c, TRUE)
    \/ \E c \in CycleIds : ReadCacheRC(c, TRUE)
    \/ \E c \in CycleIds : TxIncluded(c)

StartSpec == StartInit /\ [][StartNext]_vars

\* The secret file holds a value: it is readable and not blank.
SecretHeld == boot.secret.state = "file" /\ \E i \in DOMAIN boot.secret.text : boot.secret.text[i] # " "
\* The environment variable is set to something.
EnvHeld == boot.env.set /\ Len(boot.env.text) > 0

\* Nothing of the bot's work has begun: no connection attempt, no fullScan,
\* no subscription, no processAccount, nothing written to the cache.
NothingConnected == \A c \in Chains : boot.conn[c] = "idle"
NothingStarted ==
    /\ mainPc \notin {"initScan", "subscribed", "running"}
    /\ \A s \in SweepSlots : sweeps[s] = FreeSweep
    /\ \A h \in HandlerSlots : handlers[h] = FreeHandler
    /\ \A c \in CycleIds : cyc[c] = FreeCycle
    /\ cache = StartCache

\* C22: loadNoterMnemonic returns the trimmed content of the secret file when
\* that is readable and not blank, otherwise the trimmed environment variable
\* when it is set and not empty; with neither the process exits with status 1,
\* no connection having been attempted and nothing started, and nothing
\* happens after the exit.
CredentialLoading ==
    [][/\ mainPc = "load" /\ mainPc' # "load"
          => IF SecretHeld
             THEN /\ mainPc' = "keyring" /\ boot'.from = "secret"
                  /\ boot'.mnemonic = trim(boot.secret.text)
             ELSE IF EnvHeld
             THEN /\ mainPc' = "keyring" /\ boot'.from = "env"
                  /\ boot'.mnemonic = trim(boot.env.text)
             ELSE /\ mainPc' = "exited" /\ ExitCode' = 1
                  /\ NothingConnected' /\ NothingStarted'
       /\ mainPc \in {"crypto", "load"} => NothingConnected /\ NothingStarted
       /\ boot.from = "none" /\ boot'.from # "none" => mainPc = "load"
       /\ mainPc = "exited" => mainPc' = "exited" /\ boot' = boot /\ cache' = cache]_vars

\* The credential came from the environment because the secret file was blank,
\* and the initial scan has submitted with it.
CredentialLoadingWitness ==
    /\ boot.from = "env" /\ boot.secret.state = "file" /\ boot.mnemonic = <<"w">>
    /\ boot.env.text = <<" ", "w", " ">>
    /\ cache # StartCache

\* C23: the initial scan, the subscription and the timer exist only with the
\* credential loaded and the three chains connected; a failed connection
\* means the process has exited with status 1 with no fullScan, subscription,
\* processAccount or cache write, and stays so.
NoPartialStartup ==
    /\ mainPc \in {"initScan", "subscribed", "running"} \/ ~NothingStarted
          => boot.from # "none" /\ \A c \in Chains : boot.conn[c] = "ok"
    /\ (\E c \in Chains : boot.conn[c] = "failed")
          => mainPc = "exited" /\ ExitCode = 1 /\ NothingStarted

\* One connection is established and another has failed: the process has exited.
NoPartialStartupWitness ==
    /\ \E c \in Chains : boot.conn[c] = "ok"
    /\ \E c \in Chains : boot.conn[c] = "failed"
    /\ mainPc = "exited"

-----------------------------------------------------------------------------
(* getAssetHubStakingData over every staking storage of an address and its    *)
(* controller; at most one of its queries throws.                             *)

MaxActive == 1      \* largest active amount of a ledger
MaxChunks == 1      \* largest number of unlocking chunks of a ledger
MaxTargets == 2     \* largest number of targets of a nominator record

StakingKeys == {"a1", "c1"}
LedgerVals ==
    {<<>>} \cup {<<[active |-> s, unlocking |-> Filled(u, "chunk")]>> :
                    s \in 0..MaxActive, u \in 0..MaxChunks}
NominatorVals == {<<>>} \cup {<<[targets |-> Filled(n, "validator")]>> : n \in 1..MaxTargets}
DirectCases ==
    [hasStaking : BOOLEAN, ledger : [StakingKeys -> LedgerVals],
     bonded : [{"a1"} -> {<<>>, <<"c1">>}], nominators : [StakingKeys -> NominatorVals],
     failing : {{}} \cup {{q} : q \in DirectQueries}]

DirectInit ==
    /\ OthersAtRest
    /\ direct \in [{"a1"} -> DirectCases]
    /\ pool = [a \in {"a1"} |-> [stakedAmount |-> 0, unlockingChunksCount |-> 0]]
    /\ cache = [a \in {"a1"} |-> [src \in Sources |-> <<>>]]
    /\ tracked = {"a1"}
    /\ mainPc = "running"
    /\ sweeps = [s \in {} |-> FreeSweep]
    /\ handlers = [h \in {1} |-> [pc |-> "await", events |-> <<"a1">>, idx |-> 1]]
    /\ cyc = [c \in AllCycleIds({}, {1}, {"a1"}) |-> [FreeCycle EXCEPT !.pc = "direct"]]
    /\ nFail = 0
    /\ nChange = 0
    /\ limits = [inFlight |-> 1, failures |-> 0, changes |-> 0]
    /\ last = [a \in {"a1"} |-> "none"]

\* The await of getAssetHubStakingData in processAccount.
DirectLookup(c) ==
    /\ cyc[c].pc = "direct"
    /\ LET d == direct[AcctOf(c)]
       IN cyc' = [cyc EXCEPT ![c].pc = "pool",
                             ![c].ah = directQuery(d.hasStaking, d.ledger, d.bonded,
                                                   d.nominators, AcctOf(c), d.failing),
                             ![c].fail = d.failing # {}]
    /\ UNCHANGED <<direct, pool, cache, tracked, mainPc, sweeps, handlers, nFail, nChange,
                   limits, otherVars, last>>

DirectNext == \E c \in CycleIds : DirectLookup(c)

DirectSpec == DirectInit /\ [][DirectNext]_vars

\* The invocations that have their direct staking result.
DirectReturned == {c \in CycleIds : cyc[c].pc = "pool"}

\* C24: with the staking pallet present and no query throwing, the ledger is
\* the one stored under the address, else the one stored under its bonded
\* controller; with no ledger the result is all zeros; otherwise the staked
\* amount is the ledger's active amount, the unlocking count its number of
\* chunks, and the nominations count the number of targets of the nominator
\* record stored under the address itself, 0 without one.
DirectCollectionRule ==
    \A c \in DirectReturned :
        LET a == AcctOf(c)
            d == direct[a]
            own == d.ledger[a]
            hasController == d.bonded[a] # <<>>
        IN d.hasStaking /\ d.failing = {}
           => /\ own # <<>>
                 => cyc[c].ah = Snap(own[1].active,
                                     IF d.nominators[a] = <<>> THEN 0
                                     ELSE Len(d.nominators[a][1].targets),
                                     Len(own[1].unlocking))
              /\ own = <<>> /\ ~hasController => cyc[c].ah = ZeroSnap
              /\ own = <<>> /\ hasController /\ d.ledger[d.bonded[a][1]] = <<>>
                 => cyc[c].ah = ZeroSnap
              /\ own = <<>> /\ hasController /\ d.ledger[d.bonded[a][1]] # <<>>
                 => LET l == d.ledger[d.bonded[a][1]][1]
                    IN /\ cyc[c].ah.stakedAmount = l.active
                       /\ cyc[c].ah.unlockingChunksCount = Len(l.unlocking)
                       /\ cyc[c].ah.nominationsCount =
                             IF d.nominators[a] = <<>> THEN 0
                             ELSE Len(d.nominators[a][1].targets)

\* The ledger was found under the controller, and the nominations were counted
\* from the record of the address, not from the controller's.
DirectCollectionWitness ==
    \E c \in DirectReturned :
        LET d == direct[AcctOf(c)]
        IN /\ d.hasStaking /\ d.failing = {}
           /\ d.ledger["a1"] = <<>> /\ d.bonded["a1"] = <<"c1">>
           /\ d.ledger["c1"] = <<[active |-> 1, unlocking |-> <<"chunk">>]>>
           /\ d.nominators["a1"] = <<[targets |-> <<"validator", "validator">>]>>
           /\ d.nominators["c1"] = <<[targets |-> <<"validator">>]>>
           /\ cyc[c].ah = Snap(1, 2, 1)

-----------------------------------------------------------------------------
(* Sweep batching *)

RunningOf(s) == {c \in SweepCycles(s) : cyc[c].pc \in RunningPcs}
\* The positions of entries that batch number k (from 0) covers.
BatchPositions(s, k) ==
    {p \in 1..Len(sweeps[s].entries) : k * BATCH_SIZE < p /\ p <= (k + 1) * BATCH_SIZE}

\* C25: the invocations of a fullScan that are on record are those of one
\* batch, the entries at BATCH_SIZE consecutive positions at most, so at most
\* BATCH_SIZE of them are running; the loop leaves a batch only when all its
\* invocations have settled, fulfilled or rejected; the next batch is started
\* from the pause and only from it, and the pause is entered only with entries
\* left, the last batch being followed by the end of the scan.
SweepBatching ==
    /\ [](\A s \in SweepSlots :
            /\ sweeps[s].i % BATCH_SIZE = 0
            /\ Cardinality(RunningOf(s)) <= BATCH_SIZE
            /\ sweeps[s].pc \in {"batch", "pause"} =>
                 /\ {AcctOf(c) : c \in {d \in SweepCycles(s) : cyc[d].pc # "free"}}
                       = {sweeps[s].entries[p] : p \in BatchPositions(s, sweeps[s].i \div BATCH_SIZE)}
                 /\ Cardinality(BatchPositions(s, sweeps[s].i \div BATCH_SIZE)) \in 1..BATCH_SIZE
            /\ sweeps[s].pc = "pause" =>
                 /\ RunningOf(s) = {}
                 /\ \A c \in BatchCycles(s) : Settled(c)
                 /\ sweeps[s].i + BATCH_SIZE < Len(sweeps[s].entries))
    /\ [][\A s \in SweepSlots :
            /\ sweeps[s].pc = "batch" /\ sweeps'[s].pc # "batch"
                 => /\ \A c \in BatchCycles(s) : Settled(c)
                    /\ sweeps'[s].pc =
                          IF sweeps[s].i + BATCH_SIZE < Len(sweeps[s].entries)
                          THEN "pause" ELSE "done"
            /\ sweeps'[s].i # sweeps[s].i /\ sweeps'[s].pc = "batch"
                 => /\ sweeps[s].pc = "pause"
                    /\ sweeps'[s].i = sweeps[s].i + BATCH_SIZE
            /\ sweeps'[s].pc = "done" => sweeps[s].pc \in {"entries", "batch", "done"}]_vars

\* The second batch is running after a first batch of BATCH_SIZE accounts of
\* which one was rejected and the others fulfilled.
SweepBatchingWitness ==
    \E s \in SweepSlots :
        /\ sweeps[s].pc = "batch" /\ sweeps[s].i = BATCH_SIZE
        /\ sweeps[s].errorCount = 1 /\ sweeps[s].updatedCount = 2
        /\ RunningOf(s) = {<<"sweep", s, "a11">>}

-----------------------------------------------------------------------------
(* The indexer: first-block bootstraps and pool-member active stakers         *)

PEZKUWI_RELAY_GENESIS == "relay"
PEZKUWI_ASSET_HUB_GENESIS == "assetHub"
STAKING_TYPE_RELAYCHAIN == "relaychain"
STAKING_TYPE_NOMINATION_POOL == "nomination-pool"

\* The id of an ActiveStaker entity: `${networkId}-${stakingType}-${address}`.
StakerId(network, type, address) == <<network, type, address>>

IndexAccounts == {"a1", "a2"}
MaxMemberPoints == 1    \* largest points of a pool member on chain
PoolOrder == <<1, 2>>
PoolIds == {PoolOrder[j] : j \in 1..Len(PoolOrder)}
\* Validators are saved before nominators.
RelayOrder == <<"v1", "v2", "n1">>

\* "modl" + "py/nopls" + AccountType::Bonded + the pool id as u32 LE, zero
\* padded; the address is the text of these bytes.
derivePoolStash(poolId) ==
    ToString(<<"modl", "py/nopls", 0, poolId % 256, (poolId \div 256) % 256,
               (poolId \div 65536) % 256, (poolId \div 16777216) % 256>>)

\* Relay chain staking storage at the first block: the pallet, the active era,
\* erasStakersOverview, erasStakersPaged and erasStakersClipped of that era.
RelayChains ==
    {[hasStaking |-> FALSE, activeEra |-> <<>>, overview |-> {}, paged |-> {}, clipped |-> {}],
     [hasStaking |-> TRUE, activeEra |-> <<>>, overview |-> {}, paged |-> {}, clipped |-> {}],
     [hasStaking |-> TRUE, activeEra |-> <<1>>, overview |-> {"v1"},
      paged |-> {[validator |-> "v1", others |-> {"n1"}]}, clipped |-> {}],
     [hasStaking |-> TRUE, activeEra |-> <<1>>, overview |-> {}, paged |-> {},
      clipped |-> {[validator |-> "v2", others |-> {"n1"}]}]}

IndexerVars == <<noterVars, boot, memo, payout>>

\* The entities of the first k addresses of a list.
SavedFirst(network, type, addresses, k) ==
    {StakerId(network, type, addresses[j]) : j \in 1..Min(k, Len(addresses))}

\* The validators and nominators handleRelayBlock collects.
activeValidators(r) ==
    LET fromPaged == r.overview \cup {p.validator : p \in r.paged}
    IN IF fromPaged = {} THEN {p.validator : p \in r.clipped} ELSE fromPaged
activeNominators(r) ==
    UNION {p.others : p \in r.paged}
    \cup (IF r.overview \cup {p.validator : p \in r.paged} = {}
          THEN UNION {p.others : p \in r.clipped} ELSE {})

\* lastEvent: the event handler that has just returned, with its address and
\* whether it returned normally.
NoEvent == <<"none", "", TRUE>>
\* A block handler called with its flag set returns at once.
Skip(name) == index' = [index EXCEPT !.skipped = @ \cup {name}, !.lastEvent = NoEvent]

\* handleRelayBlock.  outcome: "ok"; "eraQueryFails", staking.activeEra throws
\* and is caught; "throws", a later query or the save after k saves throws
\* and the handler rejects.
handleRelayBlock(outcome, k) ==
    /\ IF index.relayStakersInitialized
       THEN outcome = "ok" /\ k = 0 /\ Skip("handleRelayBlock")
       ELSE LET r == index.relay
                all == FilterSeq(RelayOrder, activeValidators(r) \cup activeNominators(r))
                reachesQueries == r.hasStaking /\ r.activeEra # <<>>
            IN /\ outcome = "eraQueryFails" => r.hasStaking
               /\ outcome = "throws" => reachesQueries /\ (k < Len(all) \/ k = 0)
               /\ outcome # "throws" => k = 0
               /\ index' = [index EXCEPT
                      !.relayStakersInitialized = TRUE,
                      !.stakers =
                          IF ~reachesQueries \/ outcome = "eraQueryFails" THEN @
                          ELSE @ \cup SavedFirst(PEZKUWI_RELAY_GENESIS, STAKING_TYPE_RELAYCHAIN, all,
                                                 IF outcome = "ok" THEN Len(all) ELSE k),
                      !.done.relay = @ \/ outcome = "ok",
                      !.lastEvent = NoEvent]
    /\ UNCHANGED IndexerVars

\* The pools and members a bootstrap saves: Some with points other than 0.
Funded(storage) == {x \in DOMAIN storage : storage[x] # <<>> /\ storage[x][1] # 0}

\* handleBlock of PoolStakers.ts.  outcome: "ok"; "throws", bondedPools.entries
\* or the save after k saves throws, or computeAndSaveAPY does after the k
\* saves of all funded pools.  apy: computeAndSaveAPY has saved its entity.
handleBlockPoolStakers(outcome, k, apy) ==
    /\ IF index.poolStakersInitialized
       THEN outcome = "ok" /\ k = 0 /\ ~apy /\ Skip("handleBlockPoolStakers")
       ELSE LET pools == FilterSeq(PoolOrder, Funded(index.bondedPools))
                stashes == [j \in 1..Len(pools) |-> derivePoolStash(pools[j])]
            IN /\ outcome = "throws" => k <= Len(stashes) /\ ~apy
               /\ outcome = "ok" => k = Len(stashes)
               /\ index' = [index EXCEPT
                      !.poolStakersInitialized = TRUE,
                      !.stakers = @ \cup SavedFirst(PEZKUWI_ASSET_HUB_GENESIS, STAKING_TYPE_RELAYCHAIN,
                                                    stashes, k),
                      !.apy = @ \/ apy,
                      !.done.pools = @ \/ outcome = "ok",
                      !.lastEvent = NoEvent]
    /\ UNCHANGED IndexerVars

\* handleBlock of Governance.ts.  outcome: "ok"; "throws", poolMembers.entries
\* or the save after k saves throws.
handleBlockPoolMembers(outcome, k) ==
    /\ IF index.poolMembersInitialized
       THEN outcome = "ok" /\ k = 0 /\ Skip("handleBlockPoolMembers")
       ELSE LET members == FilterSeq(AcctOrder, Funded(index.poolMembers))
            IN /\ outcome = "throws" => k < Len(members) \/ k = 0
               /\ outcome = "ok" => k = Len(members)
               /\ index' = [index EXCEPT
                      !.poolMembersInitialized = TRUE,
                      !.stakers = @ \cup SavedFirst(PEZKUWI_ASSET_HUB_GENESIS, STAKING_TYPE_NOMINATION_POOL,
                                                    members, k),
                      !.done.members = @ \/ outcome = "ok",
                      !.lastEvent = NoEvent]
    /\ UNCHANGED IndexerVars

\* handlePoolBonded: the entity is saved, unless save throws.
handlePoolBonded(address, ok) ==
    /\ index' = [index EXCEPT
           !.stakers = IF ok
                       THEN @ \cup {StakerId(PEZKUWI_ASSET_HUB_GENESIS, STAKING_TYPE_NOMINATION_POOL, address)}
                       ELSE @,
           !.lastEvent = <<"Bonded", address, ok>>]
    /\ UNCHANGED IndexerVars

\* handlePoolUnbonded that removes the entity whatever the membership.
handlePoolUnbondedAlways(address, ok) ==
    /\ index' = [index EXCEPT
           !.stakers = IF ok
                       THEN @ \ {StakerId(PEZKUWI_ASSET_HUB_GENESIS, STAKING_TYPE_NOMINATION_POOL, address)}
                       ELSE @,
           !.lastEvent = <<"Unbonded", address, ok>>]
    /\ UNCHANGED IndexerVars

\* handlePoolUnbonded: ok is FALSE when the poolMembers query or remove throws.
handlePoolUnbonded(address, ok) ==
    /\ LET memberData == index.poolMembers[address]
       IN index' = [index EXCEPT
              !.stakers = IF ok /\ (memberData = <<>> \/ memberData[1] = 0)
                          THEN @ \ {StakerId(PEZKUWI_ASSET_HUB_GENESIS, STAKING_TYPE_NOMINATION_POOL, address)}
                          ELSE @,
              !.lastEvent = <<"Unbonded", address, ok>>]
    /\ UNCHANGED IndexerVars

\* A member joins, bonds more, unbonds or leaves on chain.
MemberChange(address, v) ==
    /\ index.poolMembers[address] # v
    /\ index' = [index EXCEPT !.poolMembers[address] = v, !.lastEvent = NoEvent]
    /\ UNCHANGED IndexerVars

\* The indexer process starts again: the module-level flags are false, the
\* entities are kept.
Restart ==
    /\ \/ index.relayStakersInitialized
       \/ index.poolStakersInitialized
       \/ index.poolMembersInitialized
    /\ index' = [index EXCEPT !.relayStakersInitialized = FALSE,
                              !.poolStakersInitialized = FALSE,
                              !.poolMembersInitialized = FALSE,
                              !.lastEvent = NoEvent]
    /\ UNCHANGED IndexerVars

OnChainMembers == {<<>>} \cup {<<p>> : p \in 0..MaxMemberPoints}

\* The noter bot is not part of the indexer.
NoterAbsent ==
    /\ direct = [a \in {} |-> ZeroSnap]
    /\ pool = [a \in {} |-> ZeroSnap]
    /\ cache = [a \in {} |-> <<>>]
    /\ tracked = {}
    /\ mainPc = "exited"
    /\ sweeps = [s \in {} |-> FreeSweep]
    /\ handlers = [h \in {} |-> FreeHandler]
    /\ cyc = [c \in {} |-> FreeCycle]
    /\ nFail = 0
    /\ nChange = 0
    /\ limits = [inFlight |-> 0, failures |-> 0, changes |-> 0]
    /\ last = [a \in {} |-> "none"]
    /\ boot = BootDone

IndexInit ==
    /\ NoterAbsent
    /\ memo = NoMemo
    /\ payout = NoPayout
    /\ \E r \in RelayChains, m \in [IndexAccounts -> OnChainMembers] :
          index = [relayStakersInitialized |-> FALSE, poolStakersInitialized |-> FALSE,
                   poolMembersInitialized |-> FALSE,
                   stakers |-> {}, apy |-> FALSE,
                   relay |-> r, bondedPools |-> [p \in PoolIds |-> IF p = 1 THEN <<1>> ELSE <<0>>],
                   poolMembers |-> m,
                   done |-> [relay |-> FALSE, pools |-> FALSE, members |-> FALSE],
                   skipped |-> {}, lastEvent |-> NoEvent]

IndexNext ==
    \/ \E outcome \in {"ok", "eraQueryFails", "throws"}, k \in 0..2 : handleRelayBlock(outcome, k)
    \/ \E outcome \in {"ok", "throws"}, k \in 0..1, apy \in BOOLEAN :
          handleBlockPoolStakers(outcome, k, apy)
    \/ \E outcome \in {"ok", "throws"}, k \in 0..2 : handleBlockPoolMembers(outcome, k)
    \/ Restart

\* The first-block bootstraps of the indexer, with restarts of the process.
IndexSpec == IndexInit /\ [][IndexNext]_vars

MemberNext ==
    \/ \E outcome \in {"ok", "throws"}, k \in 0..2 : handleBlockPoolMembers(outcome, k)
    \/ \E a \in IndexAccounts, ok \in BOOLEAN : handlePoolBonded(a, ok)
    \/ \E a \in IndexAccounts, ok \in BOOLEAN : handlePoolUnbonded(a, ok)
    \/ \E a \in IndexAccounts, v \in OnChainMembers : MemberChange(a, v)

\* The pool-member handlers of Governance.ts over any sequence of events and
\* membership changes.
MemberSpec == IndexInit /\ [][MemberNext]_vars

\* C26: a first-block flag is true only if its bootstrap has run to its end
\* (or found nothing to do), and a block handler returns at once only then.
BootstrapFlagRule ==
    /\ index.relayStakersInitialized => index.done.relay
    /\ index.poolStakersInitialized => index.done.pools
    /\ index.poolMembersInitialized => index.done.members
    /\ "handleRelayBlock" \in index.skipped => index.done.relay
    /\ "handleBlockPoolStakers" \in index.skipped => index.done.pools
    /\ "handleBlockPoolMembers" \in index.skipped => index.done.members

\* The nomination-pool entity of an address.
PoolStaker(address) == StakerId(PEZKUWI_ASSET_HUB_GENESIS, STAKING_TYPE_NOMINATION_POOL, address)
\* The member has left the pool or has no points.
NoMembership(address) ==
    index.poolMembers[address] = <<>> \/ index.poolMembers[address][1] = 0

\* C28: a handlePoolBonded that returns leaves the member's nomination-pool
\* entity stored; a handlePoolUnbonded that returns leaves it removed when the
\* membership it reads is absent or has zero points and changes nothing
\* otherwise; both touch no other entity.
PoolMemberStakers ==
    [][\A a \in IndexAccounts :
         /\ index'.lastEvent = <<"Bonded", a, TRUE>>
              => index'.stakers = index.stakers \cup {PoolStaker(a)}
         /\ index'.lastEvent = <<"Unbonded", a, TRUE>>
              => index'.stakers = IF NoMembership(a) THEN index.stakers \ {PoolStaker(a)}
                                  ELSE index.stakers]_vars

\* A member that has unbonded in part kept the entity, and a member that has
\* left lost it.
PoolMemberStakersWitness ==
    /\ index.poolMembersInitialized
    /\ index.lastEvent = <<"Unbonded", "a1", TRUE>>
    /\ NoMembership("a1") /\ PoolStaker("a1") \notin index.stakers
    /\ ~NoMembership("a2") /\ PoolStaker("a2") \in index.stakers
    /\ index.done.members

-----------------------------------------------------------------------------
(* The indexer: the per-block memo maps of Cache.ts                           *)

MemoBlocks == {1, 2}
RewardPaymentDelay == 2     \* parachainStaking.rewardPaymentDelay

\* The events of the blocks: Rewarded carries (account, destination, amount),
\* Reward and Slash carry (account, amount).
BlockEvents ==
    [b \in MemoBlocks |->
        IF b = 1 THEN <<[kind |-> "Rewarded", arity |-> 3, account |-> "a1", dest |-> "Staked"],
                        [kind |-> "Rewarded", arity |-> 3, account |-> "a2", dest |-> "Controller"]>>
        ELSE <<[kind |-> "Reward", arity |-> 2, account |-> "a1", dest |-> ""],
               [kind |-> "Reward", arity |-> 2, account |-> "a2", dest |-> ""],
               [kind |-> "Slash", arity |-> 2, account |-> "a2", dest |-> ""]>>]
EventRefs == {r \in MemoBlocks \X (1..3) : r[2] <= Len(BlockEvents[r[1]])}

\* staking.payee and staking.bonded, parachainStaking.round and the pool
\* members of the chain at a block.
Payee == [a \in {"a1", "a2"} |-> IF a = "a1" THEN "Controller" ELSE "Staked"]
Bonded == [a \in {"a1", "a2"} |-> IF a = "a1" THEN "c1" ELSE "c2"]
Round == [b \in MemoBlocks |-> b + 1]
MembersAt == [b \in MemoBlocks |-> IF b = 1 THEN <<>> ELSE <<"a1">>]

NoEntries == [b \in {} |-> 0]
OneEntry(b, v) == [x \in {b} |-> v]
\* obj[key] of a JavaScript object
Get(obj, key) == IF key \in DOMAIN obj THEN obj[key] ELSE "undefined"

\* The events of the block with the method and section of the event.
allEventsInBlock(ref) ==
    SelectSeq(BlockEvents[ref[1]], LAMBDA e : e.kind = BlockEvents[ref[1]][ref[2]].kind)
AccountsOf(events) == {events[j].account : j \in 1..Len(events)}

\* A call of a memo function: the map after it, what it returned, whether it
\* threw, whether it was a miss.
Outcome(map, ret, threw, miss) == [map |-> map, ret |-> ret, threw |-> threw, miss |-> miss]

\* cachedRewardDestination that keeps the entries of other blocks on a miss.
rewardDestinationKeep(map, accountAddress, ref, rpc) ==
    LET blockId == ref[1]
        byAddress == [a \in AccountsOf(allEventsInBlock(ref)) |-> Payee[a]]
    IN IF blockId \in DOMAIN map
       THEN Outcome(map, Get(map[blockId], accountAddress), FALSE, FALSE)
       ELSE Outcome([b \in DOMAIN map \cup {blockId} |->
                        IF b = blockId THEN byAddress ELSE map[b]],
                    Get(byAddress, accountAddress), FALSE, TRUE)

\* cachedRewardDestination whose miss answers an address that has no event of
\* the kind with the payee read from the chain.
rewardDestinationDirect(map, accountAddress, ref, rpc) ==
    LET blockId == ref[1]
        event == BlockEvents[ref[1]][ref[2]]
        events == allEventsInBlock(ref)
        latest(a) == CHOOSE j \in 1..Len(events) :
                      /\ events[j].account = a
                      /\ \A k \in (j + 1)..Len(events) : events[k].account # a
        fromData == [a \in AccountsOf(events) |-> events[latest(a)].dest]
        fromQuery == [a \in AccountsOf(events) |-> Payee[a]]
    IN IF blockId \in DOMAIN map
       THEN Outcome(map, Get(map[blockId], accountAddress), FALSE, FALSE)
       ELSE IF event.arity = 3
       THEN Outcome(OneEntry(blockId, fromData), Get(fromData, accountAddress), FALSE, TRUE)
       ELSE IF rpc = "throws" THEN Outcome(NoEntries, "undefined", TRUE, TRUE)
       ELSE IF rpc = "short"
       THEN Outcome(OneEntry(blockId, OneEntry(accountAddress, Payee[accountAddress])),
                    Payee[accountAddress], FALSE, TRUE)
       ELSE Outcome(OneEntry(blockId, fromQuery), Payee[accountAddress], FALSE, TRUE)

\* cachedRewardDestination on the map rewardDestinationByAddress.  rpc: "ok";
\* "throws", queryMulti or payee throws; "short", queryMulti returns fewer
\* results than accounts.
rewardDestination(map, accountAddress, ref, rpc) ==
    LET blockId == ref[1]
        event == BlockEvents[ref[1]][ref[2]]
        events == allEventsInBlock(ref)
        latest(a) == CHOOSE j \in 1..Len(events) :
                      /\ events[j].account = a
                      /\ \A k \in (j + 1)..Len(events) : events[k].account # a
        fromData == [a \in AccountsOf(events) |-> events[latest(a)].dest]
        fromQuery == [a \in AccountsOf(events) |-> Payee[a]]
    IN IF blockId \in DOMAIN map
       THEN Outcome(map, Get(map[blockId], accountAddress), FALSE, FALSE)
       ELSE IF event.arity = 3
       THEN Outcome(OneEntry(blockId, fromData), Get(fromData, accountAddress), FALSE, TRUE)
       ELSE IF Len(events) = 0
       THEN (IF rpc = "throws"
             THEN Outcome(OneEntry(blockId, NoEntries), "undefined", TRUE, TRUE)
             ELSE Outcome(OneEntry(blockId, NoEntries), Payee[accountAddress], FALSE, TRUE))
       ELSE IF rpc = "throws" THEN Outcome(NoEntries, "undefined", TRUE, TRUE)
       ELSE IF rpc = "short"
       THEN Outcome(OneEntry(blockId, OneEntry(accountAddress, Payee[accountAddress])),
                    Payee[accountAddress], FALSE, TRUE)
       ELSE Outcome(OneEntry(blockId, fromQuery), Get(fromQuery, accountAddress), FALSE, TRUE)

\* The loop of cachedController over the accounts of the block: the state of
\* rewardDestinationByAddress, the accounts that need a controller, whether a
\* call threw (reading isController of undefined throws as well), whether a
\* call was a miss.
RECURSIVE needLoop(_, _, _, _)
needLoop(acc, accounts, ref, rpc) ==
    IF accounts = <<>> \/ acc.threw THEN acc
    ELSE LET o == rewardDestination(acc.map, Head(accounts), ref, rpc)
         IN needLoop([map |-> o.map,
                      need |-> IF o.ret = "Controller" THEN acc.need \cup {Head(accounts)}
                               ELSE acc.need,
                      threw |-> o.threw \/ o.ret = "undefined",
                      miss |-> acc.miss \/ o.miss],
                     Tail(accounts), ref, rpc)

\* cachedController on controllersByStash and rewardDestinationByAddress.
\* rpcPayee is the outcome of the payee queries, rpcBonded of the bonded ones.
controller(maps, accountAddress, ref, rpcPayee, rpcBonded) ==
    LET blockId == ref[1]
        events == allEventsInBlock(ref)
        accounts == [j \in 1..Len(events) |-> events[j].account]
        loop == needLoop([map |-> maps.rewardDestinationByAddress, need |-> {},
                          threw |-> FALSE, miss |-> FALSE], accounts, ref, rpcPayee)
        bondedByAddress == [a \in loop.need |-> Bonded[a]]
        result(map, ret, threw) ==
            [controllersByStash |-> map, rewardDestinationByAddress |-> loop.map,
             ret |-> ret, threw |-> threw, miss |-> TRUE, missReward |-> loop.miss]
    IN IF blockId \in DOMAIN maps.controllersByStash
       THEN [controllersByStash |-> maps.controllersByStash,
             rewardDestinationByAddress |-> maps.rewardDestinationByAddress,
             ret |-> Get(maps.controllersByStash[blockId], accountAddress),
             threw |-> FALSE, miss |-> FALSE, missReward |-> FALSE]
       ELSE IF loop.threw THEN result(NoEntries, "undefined", TRUE)
       ELSE IF loop.need = {}
       THEN result(OneEntry(blockId, NoEntries),
                   IF rpcBonded = "throws" THEN "undefined" ELSE Bonded[accountAddress],
                   rpcBonded = "throws")
       ELSE IF rpcBonded = "throws" THEN result(NoEntries, "undefined", TRUE)
       ELSE IF rpcBonded = "short"
       THEN result(OneEntry(blockId, OneEntry(accountAddress, Bonded[accountAddress])),
                   Bonded[accountAddress], FALSE)
       ELSE result(OneEntry(blockId, bondedByAddress), Get(bondedByAddress, accountAddress),
                   FALSE)

\* A map that is replaced only after its query has returned.
replaceAfterQuery(map, blockId, value, ok) ==
    IF blockId \in DOMAIN map THEN Outcome(map, map[blockId], FALSE, FALSE)
    ELSE IF ~ok THEN Outcome(map, "undefined", TRUE, TRUE)
    ELSE Outcome(OneEntry(blockId, value), value, FALSE, TRUE)

MemoMaps == {"rewardDestinationByAddress", "controllersByStash",
             "parachainStakingRewardEra", "poolMembers"}
Rpcs == {"ok", "throws", "short"}
MemoVars == <<noterVars, boot, index, payout>>

\* The maps that are replaced only after their query has returned.
LateMaps == {"parachainStakingRewardEra", "poolMembers"}

\* lastMiss[m]: the block id of the latest call that found no entry for its
\* block in map m; lastFilled[m], for a map of LateMaps: of the latest such
\* call that returned.
Missed(m, o, blockId) ==
    [lastMiss |-> IF o.miss THEN [memo.lastMiss EXCEPT ![m] = blockId] ELSE memo.lastMiss,
     lastFilled |-> IF m \in LateMaps /\ o.miss /\ ~o.threw
                    THEN [memo.lastFilled EXCEPT ![m] = blockId]
                    ELSE memo.lastFilled]

cachedRewardDestination(accountAddress, ref, rpc) ==
    /\ LET o == rewardDestination(memo.rewardDestinationByAddress, accountAddress, ref, rpc)
           h == Missed("rewardDestinationByAddress", o, ref[1])
       IN /\ o.miss \/ rpc = "ok"
          /\ memo' = [memo EXCEPT !.rewardDestinationByAddress = o.map,
                                  !.lastMiss = h.lastMiss, !.lastFilled = h.lastFilled]
    /\ UNCHANGED MemoVars

cachedController(accountAddress, ref, rpcPayee, rpcBonded) ==
    /\ LET o == controller(memo, accountAddress, ref, rpcPayee, rpcBonded)
           onMiss(m, missed, hist) == IF missed THEN [hist EXCEPT ![m] = ref[1]] ELSE hist
       IN /\ o.miss \/ (rpcPayee = "ok" /\ rpcBonded = "ok")
          /\ memo' = [memo EXCEPT
                 !.rewardDestinationByAddress = o.rewardDestinationByAddress,
                 !.controllersByStash = o.controllersByStash,
                 !.lastMiss =
                     onMiss("controllersByStash", o.miss,
                            onMiss("rewardDestinationByAddress", o.missReward, @))]
    /\ UNCHANGED MemoVars

cachedStakingRewardEraIndex(ref, ok) ==
    /\ LET blockId == ref[1]
           o == replaceAfterQuery(memo.parachainStakingRewardEra, blockId,
                                  Round[blockId] - RewardPaymentDelay, ok)
           h == Missed("parachainStakingRewardEra", o, blockId)
       IN /\ o.miss \/ ok
          /\ memo' = [memo EXCEPT !.parachainStakingRewardEra = o.map,
                                  !.lastMiss = h.lastMiss, !.lastFilled = h.lastFilled]
    /\ UNCHANGED MemoVars

getPoolMembers(blockId, ok) ==
    /\ LET o == replaceAfterQuery(memo.poolMembers, blockId, MembersAt[blockId], ok)
           h == Missed("poolMembers", o, blockId)
       IN /\ o.miss \/ ok
          /\ memo' = [memo EXCEPT !.poolMembers = o.map,
                                  !.lastMiss = h.lastMiss, !.lastFilled = h.lastFilled]
    /\ UNCHANGED MemoVars

MemoInit ==
    /\ NoterAbsent
    /\ index = NoIndex
    /\ payout = NoPayout
    /\ memo = [rewardDestinationByAddress |-> NoEntries, controllersByStash |-> NoEntries,
               parachainStakingRewardEra |-> NoEntries, poolMembers |-> NoEntries,
               lastMiss |-> [m \in MemoMaps |-> 0], lastFilled |-> [m \in LateMaps |-> 0]]

MemoNext ==
    \/ \E a \in DOMAIN Payee, ref \in EventRefs, rpc \in Rpcs :
          cachedRewardDestination(a, ref, rpc)
    \/ \E a \in DOMAIN Payee, ref \in EventRefs, rpcPayee \in Rpcs, rpcBonded \in Rpcs :
          cachedController(a, ref, rpcPayee, rpcBonded)
    \/ \E ref \in EventRefs, ok \in BOOLEAN : cachedStakingRewardEraIndex(ref, ok)
    \/ \E b \in MemoBlocks, ok \in BOOLEAN : getPoolMembers(b, ok)

MemoSpec == MemoInit /\ [][MemoNext]_vars

\* C27: every memo map holds entries for at most one block id.  For
\* rewardDestinationByAddress and controllersByStash it is the block of the
\* latest miss; for parachainStakingRewardEra and poolMembers it is the block of
\* the latest miss whose query returned, a miss whose query throws leaving the
\* earlier entry in place.
MemoOneBlock ==
    \A m \in MemoMaps :
        /\ Cardinality(DOMAIN memo[m]) <= 1
        /\ m \notin LateMaps => DOMAIN memo[m] \subseteq {memo.lastMiss[m]}
        /\ m \in LateMaps => DOMAIN memo[m] \subseteq {memo.lastFilled[m]}

\* The maps were filled for block 1 and then missed for block 2, the two
\* address maps being replaced and the era query throwing.
MemoOneBlockWitness ==
    /\ DOMAIN memo.rewardDestinationByAddress = {2}
    /\ DOMAIN memo.controllersByStash = {2}
    /\ \A m \in MemoMaps : memo.lastMiss[m] = 2
    /\ DOMAIN memo.parachainStakingRewardEra = {1}
    /\ DOMAIN memo.poolMembers = {2}

\* C27 as stated: every memo map holds entries for no block but the one of
\* its latest miss.
MemoLatestMissOnly ==
    \A m \in MemoMaps : DOMAIN memo[m] \subseteq {memo.lastMiss[m]}


(***************************************************************************)
(* The payout bot (bot.js 1-125): runPayouts walks the completed eras of   *)
(* the staking pallet and submits payoutStakersByPage for every page that   *)
(* the chain does not list as claimed.  The variable payout holds the chain *)
(* storage the run reads, the transaction pool, and the locals of the run.  *)
(***************************************************************************)
HistoryEras == 84           \* the depth of the era window (bot.js 60)
LastEra == 86               \* eras of the modelled chain are 0..LastEra
MaxRuns == 2                \* the initial run and one periodic run
None == -1                  \* an Option that isNone

Eras == 0..LastEra
valAddrs == <<"v1", "v2">>
Validators == {valAddrs[i] : i \in 1..Len(valAddrs)}
ActiveEras == {None, 2, LastEra}
RewardSamples == {{1, 2, LastEra - 1, LastEra}, {2, LastEra - 1}}
OverviewSamples == {[v1 |-> 2, v2 |-> None], [v1 |-> 1, v2 |-> 1]}
QuietSamples == {{}, {1, LastEra - 1}}

NoTx == [validator |-> "none", era |-> None, page |-> None]
NoRun == [activeEra |-> None, era |-> 0, vi |-> 0, pageCount |-> 0, page |-> 0,
          nonce |-> 0, totalSent |-> 0]
PayoutVars == <<noterVars, boot, memo, index>>

firstEraZero(activeEra) == 0

\* Math.max(0, activeEra - 84)
firstEra(activeEra) == IF activeEra - HistoryEras > 0 THEN activeEra - HistoryEras ELSE 0

\* connect(): an existing connected api is kept, otherwise one is created;
\* ApiPromise.create may reject, and then api keeps its value.
connect(ok) ==
    /\ payout.pc = "connect"
    /\ payout' = [payout EXCEPT
                    !.tx = NoTx,
                    !.api = IF payout.api = "connected" \/ ok THEN "connected" ELSE @,
                    !.pc = IF payout.api = "connected" \/ ok THEN "activeEra" ELSE "caught"]
    /\ UNCHANGED PayoutVars

\* The timer of setInterval (or main for the initial run) calls runPayouts.
StartRun ==
    /\ payout.pc = "idle"
    /\ payout.runs < MaxRuns
    /\ payout' = [payout EXCEPT !.tx = NoTx, !.runs = @ + 1, !.pc = "connect", !.run = NoRun]
    /\ UNCHANGED PayoutVars

\* activeEra, validators.entries and accountNextIndex (45-57).
ReadActiveEra ==
    /\ payout.pc = "activeEra"
    /\ payout' = [payout EXCEPT
                    !.tx = NoTx,
                    !.pc = IF payout.activeEra = None THEN "idle" ELSE "era",
                    !.run = IF payout.activeEra = None THEN @
                            ELSE [@ EXCEPT !.activeEra = payout.activeEra,
                                           !.era = firstEra(payout.activeEra),
                                           !.nonce = payout.nextIndex]]
    /\ UNCHANGED PayoutVars

\* The head of the era loop and the erasValidatorReward query (60-62).
EraLoop ==
    /\ payout.pc = "era"
    /\ LET r == payout.run
       IN  payout' = [payout EXCEPT
                        !.tx = NoTx,
                        !.pc = IF r.era >= r.activeEra THEN "idle"
                               ELSE IF r.era \notin payout.reward THEN "era"
                               ELSE "validator",
                        !.run = IF r.era >= r.activeEra THEN @
                                ELSE IF r.era \notin payout.reward
                                     THEN [@ EXCEPT !.era = @ + 1]
                                ELSE [@ EXCEPT !.vi = 1]]
    /\ UNCHANGED PayoutVars

\* The head of the validator loop and the erasStakersOverview query (64-69).
ValidatorLoop ==
    /\ payout.pc = "validator"
    /\ LET r == payout.run
       IN  payout' = [payout EXCEPT
                        !.tx = NoTx,
                        !.pc = IF r.vi > Len(valAddrs) THEN "era"
                               ELSE IF payout.overview[<<r.era, valAddrs[r.vi]>>] = None
                                    THEN "validator"
                               ELSE "page",
                        !.run = IF r.vi > Len(valAddrs) THEN [@ EXCEPT !.era = @ + 1]
                                ELSE IF payout.overview[<<r.era, valAddrs[r.vi]>>] = None
                                     THEN [@ EXCEPT !.vi = @ + 1]
                                ELSE [@ EXCEPT
                                        !.pageCount = payout.overview[<<r.era, valAddrs[r.vi]>>],
                                        !.page = 0]]
    /\ UNCHANGED PayoutVars

\* The head of the page loop, the claimedRewards query and the submission
\* (72-93).  signAndSend takes nonce++; accepted, the transaction is in the
\* pool, rejected, the nonce is read again from the chain.
PageLoop(ok) ==
    /\ payout.pc = "page"
    /\ LET r == payout.run
           addr == valAddrs[r.vi]
           claimedPages == payout.claimed[<<r.era, addr>>]
           tx == [validator |-> addr, era |-> r.era, page |-> r.page]
       IN  IF r.page >= r.pageCount
           THEN payout' = [payout EXCEPT !.tx = NoTx, !.pc = "validator",
                                         !.run = [@ EXCEPT !.vi = @ + 1]]
           ELSE IF r.page \in claimedPages
           THEN payout' = [payout EXCEPT !.tx = NoTx, !.run = [@ EXCEPT !.page = @ + 1]]
           ELSE IF ok
           THEN payout' = [payout EXCEPT
                             !.tx = tx,
                             !.pool = @ \cup {tx},
                             !.nextIndex = @ + 1,
                             !.run = [@ EXCEPT !.page = @ + 1, !.nonce = @ + 1,
                                               !.totalSent = @ + 1]]
           ELSE payout' = [payout EXCEPT
                             !.tx = tx,
                             !.run = [@ EXCEPT !.page = @ + 1, !.nonce = payout.nextIndex]]
    /\ UNCHANGED PayoutVars

\* A query of the run rejects: runPayouts ends at that await.
QueryThrows ==
    /\ payout.pc \in {"activeEra", "era", "validator", "page"}
    /\ payout' = [payout EXCEPT !.tx = NoTx, !.pc = "caught"]
    /\ UNCHANGED PayoutVars

\* The catch of the caller: main logs (105-109), the timer callback also
\* disconnects and drops the api (114-121).
Caught ==
    /\ payout.pc = "caught"
    /\ payout' = [payout EXCEPT !.tx = NoTx, !.pc = "idle",
                                !.api = IF payout.runs > 1 THEN "none" ELSE @]
    /\ UNCHANGED PayoutVars

\* The chain executes a submitted payout: the page joins claimedRewards.
Included(t) ==
    /\ t \in payout.pool
    /\ payout' = [payout EXCEPT
                    !.tx = NoTx,
                    !.pool = @ \ {t},
                    !.claimed[<<t.era, t.validator>>] = @ \cup {t.page}]
    /\ UNCHANGED PayoutVars

PayoutInit ==
    /\ NoterAbsent
    /\ memo = NoMemo
    /\ index = NoIndex
    /\ \E a \in ActiveEras, rew \in RewardSamples, ov \in OverviewSamples,
          quiet \in QuietSamples :
          payout = [activeEra |-> a, reward |-> rew,
                    overview |-> [k \in Eras \X Validators |->
                                    IF k[1] \in quiet /\ k[2] = "v1" THEN None ELSE ov[k[2]]],
                    claimed |-> [k \in Eras \X Validators |->
                                    {}],
                    pool |-> {}, nextIndex |-> 0, api |-> "none", runs |-> 0,
                    pc |-> "idle", run |-> NoRun, tx |-> NoTx]

PayoutNext ==
    \/ StartRun
    \/ \E ok \in BOOLEAN : connect(ok)
    \/ ReadActiveEra
    \/ EraLoop
    \/ ValidatorLoop
    \/ \E ok \in BOOLEAN : PageLoop(ok)
    \/ QueryThrows
    \/ Caught
    \/ \E t \in payout.pool : Included(t)

PayoutSpec == PayoutInit /\ [][PayoutNext]_vars

\* C29: a step that submits payoutStakersByPage(validator, era, page) does so
\* for an era of [max(0, activeEra - 84), activeEra) with a recorded era
\* reward, a validator with an exposure overview in that era, a page below the
\* page count of the overview and a page that claimedRewards did not list when
\* it was read; with no active era nothing is submitted.
PayoutOnlyUnclaimed ==
    [][payout'.tx # NoTx =>
         LET t == payout'.tx
             k == <<t.era, t.validator>>
         IN  /\ payout.activeEra # None
             /\ t.era >= 0
             /\ t.era >= payout.activeEra - HistoryEras
             /\ t.era < payout.activeEra
             /\ t.era \in payout.reward
             /\ t.validator \in Validators
             /\ payout.overview[k] # None
             /\ t.page >= 0
             /\ t.page < payout.overview[k]
             /\ t.page \notin payout.claimed[k]]_vars

\* With active era 86, the second run submits page 1 of era 85 for a validator
\* whose page 0, submitted by the first run, has been claimed meanwhile; era 1
\* has a reward and lies below the window.
PayoutOnlyUnclaimedWitness ==
    /\ payout.activeEra = LastEra
    /\ 1 \in payout.reward
    /\ payout.runs = 2
    /\ payout.tx = [validator |-> "v1", era |-> LastEra - 1, page |-> 1]
    /\ 0 \in payout.claimed[<<LastEra - 1, "v1">>]

\* C30: a read of the cached snapshot that fails counts as an absent record.
\* When the AssetHub read of an invocation fails the invocation holds no cached
\* snapshot and enqueues the AssetHub update with the combined data, whether or
\* not its pool query failed; when its RelayChain read fails no update for
\* RelayChain is enqueued.
FailedReadAsAbsent ==
    [][\A c \in CycleIds :
         /\ (cyc[c].pc = "cacheAH" /\ cyc'[c].pc = "cacheRC" /\ nFail' = nFail + 1) =>
                /\ cyc'[c].cached = <<>>
                /\ cyc'[c].updates =
                      <<[address |-> AcctOf(c), source |-> "AssetHub",
                         data |-> cyc[c].combined]>>
                /\ cyc'[c].updates =
                      ahUpdates(AcctOf(c), cyc[c].combined, cyc[c].poolData, <<>>)
         /\ (cyc[c].pc = "cacheRC" /\ cyc'[c].pc # "cacheRC" /\ nFail' = nFail + 1) =>
                /\ \A i \in DOMAIN cyc'[c].updates :
                      cyc'[c].updates[i].source # "RelayChain"
                /\ cyc[c].updates = <<>> => cyc'[c].pc = "done"
                /\ cyc[c].updates # <<>> =>
                      cyc'[c].pc = "inflight" /\ cyc'[c].updates = cyc[c].updates]_vars

\* An invocation whose pool query and both reads of the cache failed: People
\* Chain holds an AssetHub record with a larger stake than the combined one and
\* a RelayChain record with a stake, and the invocation submits the AssetHub
\* update alone.
FailedReadAsAbsentWitness ==
    \E c \in CycleIds :
        /\ cyc[c].pc = "inflight"
        /\ cyc[c].poolData.queryFailed
        /\ cyc[c].cached = <<>>
        /\ cache[AcctOf(c)]["AssetHub"] # <<>>
        /\ cache[AcctOf(c)]["AssetHub"][1].stakedAmount > cyc[c].combined.stakedAmount
        /\ cache[AcctOf(c)]["RelayChain"] # <<>>
        /\ cache[AcctOf(c)]["RelayChain"][1].stakedAmount > 0
        /\ cyc[c].updates =
              <<[address |-> AcctOf(c), source |-> "AssetHub", data |-> cyc[c].combined]>>

-----------------------------------------------------------------------------
(* Startup of main(): the initial scan, the subscription, the timer. *)

\* A fullScan of slot s owns an invocation for account a that has been called.
SweptBy(s, a) == <<"sweep", s, a>> \in CycleIds /\ cyc[<<"sweep", s, a>>].pc = "direct"
ListenerCycles == {c \in CycleIds : c[1] = "event"}

\* The steps of main() come in order: the subscription follows the return of
\* the initial scan, the timer follows the subscription, and only the timer
\* calls fullScan again.
StartupOrder ==
    /\ mainPc' = "scanned" => mainPc \in {"scanned", "initScan"}
    /\ (mainPc' = "scanned" /\ mainPc = "initScan") =>
           \E s \in SweepSlots : sweeps[s].pc = "done" /\ sweeps'[s].pc = "free"
    /\ mainPc' = "subscribed" => mainPc \in {"subscribed", "scanned"}
    /\ mainPc' = "running" => mainPc \in {"running", "subscribed"}
    /\ \A s \in SweepSlots :
          (sweeps'[s].pc = "entries" /\ sweeps[s].pc # "entries") =>
              \/ mainPc = "start" /\ mainPc' = "initScan"
              \/ mainPc = "running"

\* A block finalized before the subscription reaches no callback, and a
\* callback only ever processes the accounts of the block it was called for.
MissedEvents ==
    /\ (tracked' # tracked /\ ~Subscribed) =>
           /\ handlers' = handlers
           /\ \A c \in ListenerCycles : cyc'[c] = cyc[c]
    /\ \A h \in HandlerSlots :
          (handlers'[h].pc = "fetch" /\ handlers[h] # handlers'[h]) =>
              /\ Subscribed
              /\ Range(handlers'[h].events) = tracked' \ tracked
    /\ \A c \in ListenerCycles :
          (cyc'[c].pc = "direct" /\ cyc[c].pc # "direct") =>
              /\ Subscribed
              /\ AcctOf(c) \in Range(handlers[c[2]].events)

EnumerationFails(s) == sweeps[s].pc = "entries" /\ sweeps'[s].pc = "free"

\* C32: a throw of the enumeration of the tracked accounts ends the process
\* with exit code 1 when it happens in the initial scan; in a periodic scan it
\* ends that fullScan only, the other fullScans, the invocations and the
\* callbacks staying as they are, and the timer goes on calling fullScan.  A
\* process that has exited takes no step.
EnumerationFailure ==
    /\ [][/\ \A s \in SweepSlots :
               EnumerationFails(s) =>
                   /\ nFail' = nFail + 1
                   /\ mainPc \in {"initScan", "running"}
                   /\ mainPc = "initScan" => mainPc' = "exited"
                   /\ mainPc = "running" =>
                          /\ mainPc' = "running"
                          /\ \A t \in SweepSlots \ {s} : sweeps'[t] = sweeps[t]
                          /\ cyc' = cyc /\ handlers' = handlers /\ cache' = cache
          /\ mainPc' = "exited" =>
               \/ mainPc = "exited"
               \/ mainPc = "initScan" /\ \E s \in SweepSlots : EnumerationFails(s)
          /\ mainPc = "exited" =>
               /\ mainPc' = "exited" /\ sweeps' = sweeps /\ handlers' = handlers
               /\ cache' = cache
               /\ \A c \in CycleIds : cyc'[c].pc = cyc[c].pc]_vars
    /\ (mainPc = "running") ~> (\E s \in LiveSlots : sweeps[s].pc = "entries")

\* The failure of the behaviour has been spent, the process runs with its
\* timer scheduled, no callback was ever called, and a periodic fullScan has
\* read the entries and processes a1.
EnumerationFailureWitness ==
    /\ mainPc = "running"
    /\ nFail = 1
    /\ tracked = {"a1"}
    /\ \E s \in SweepSlots :
          /\ sweeps[s].pc = "batch"
          /\ sweeps[s].entries = <<"a1">>
          /\ cyc[<<"sweep", s, "a1">>].pc = "inflight"
          /\ ~cyc[<<"sweep", s, "a1">>].fail

-----------------------------------------------------------------------------
(* cachedRewardDestination as the event handlers of the indexer call it: the  *)
(* blocks are processed in order, and for the block at hand it is called for   *)
(* any of its events and any address.  Here memo holds the map, the block at   *)
(* hand, the misses at that block (up to 2), the latest call with its outcome  *)
(* and for every block and address the values returned so far.                 *)

DestAccounts == DOMAIN Payee
NoCall == [address |-> "none", event |-> 0, ret |-> "undefined", threw |-> FALSE,
           miss |-> FALSE]

\* One call for an event of the block at hand.
RewardDestinationCall(accountAddress, i, rpc) ==
    /\ <<memo.block, i>> \in EventRefs
    /\ LET ref == <<memo.block, i>>
           o == rewardDestination(memo.rewardDestinationByAddress, accountAddress, ref, rpc)
       IN /\ o.miss \/ rpc = "ok"
          /\ memo' = [memo EXCEPT
                        !.rewardDestinationByAddress = o.map,
                        !.misses = IF o.miss THEN Min(@ + 1, 2) ELSE @,
                        !.call = [address |-> accountAddress, event |-> i, ret |-> o.ret,
                                  threw |-> o.threw, miss |-> o.miss],
                        !.returned[<<memo.block, accountAddress>>] =
                            IF o.threw THEN @ ELSE @ \cup {o.ret}]
    /\ UNCHANGED MemoVars

\* The handlers of the block have run: the indexer goes on to the next block.
NextBlock ==
    /\ memo.block + 1 \in MemoBlocks
    /\ memo' = [memo EXCEPT !.block = @ + 1, !.misses = 0, !.call = NoCall]
    /\ UNCHANGED MemoVars

DestInit ==
    /\ NoterAbsent
    /\ index = NoIndex
    /\ payout = NoPayout
    /\ memo = [rewardDestinationByAddress |-> NoEntries, block |-> 1, misses |-> 0,
               call |-> NoCall,
               returned |-> [k \in MemoBlocks \X DestAccounts |-> {}]]

DestNext ==
    \/ \E a \in DestAccounts, i \in 1..3, rpc \in Rpcs : RewardDestinationCall(a, i, rpc)
    \/ NextBlock

DestSpec == DestInit /\ [][DestNext]_vars

\* C33: for every block and every account address, all the calls of
\* cachedRewardDestination for that block and address that returned have
\* returned one and the same value, the call that filled the memo and the
\* calls that read it alike.
RewardDestinationDeterminism ==
    \A k \in MemoBlocks \X DestAccounts : Cardinality(memo.returned[k]) <= 1

\* For block 2 the memo was filled by a call for a Slash event, after a call
\* whose query threw, and read by later calls: a2, the subject of the Slash,
\* got its payee and a1, the subject of no Slash, got undefined each time.
RewardDestinationDeterminismWitness ==
    /\ memo.block = 2
    /\ memo.misses = 2
    /\ DOMAIN memo.rewardDestinationByAddress = {2}
    /\ DOMAIN memo.rewardDestinationByAddress[2] = {"a2"}
    /\ memo.returned[<<2, "a1">>] = {"undefined"}
    /\ memo.returned[<<2, "a2">>] = {Payee["a2"]}
    /\ memo.returned[<<1, "a1">>] = {"Staked"}

-----------------------------------------------------------------------------
(* The governance handlers (Governance.ts 121-415).  In the specifications of  *)
(* this part index is the store: referendum maps a referendum id to its track, *)
(* castingVoting holds the (referendum, voter) of the stored votes,            *)
(* delegatorVoting the (referendum, voter, delegator) of the stored delegated  *)
(* votes, delegation maps (delegator, track) to its target and                 *)
(* amount, delegate maps an account to its statistics, delegateVote holds the  *)
(* (voter, referendum) of the votes of delegates.  A handler runs to its end   *)
(* before the next one is called.                                              *)

QUERY_LIMIT == 500      \* { limit: 500 } of the getBy... queries

GovDelegators == {"d1", "d2"}
GovDelegates == {"v1", "v2"}
Tracks == {0, 1}
Referenda == {1}
Balances == {1, 2}

Put(f, k, v) == [x \in DOMAIN f \cup {k} |-> IF x = k THEN v ELSE f[x]]
Drop(f, K) == [x \in DOMAIN f \ K |-> f[x]]
EmptyStore ==
    [referendum |-> <<>>, castingVoting |-> {}, delegatorVoting |-> {},
     delegation |-> <<>>, delegate |-> <<>>, delegateVote |-> {}]

\* What a query with { limit: 500 } may return of the matching records S: all
\* of them when they are at most 500, else any 500 of them.
Limit(S) ==
    IF Cardinality(S) <= QUERY_LIMIT THEN {S}
    ELSE IF Cardinality(S) = QUERY_LIMIT + 1 THEN {S \ {x} : x \in S}
    ELSE {T \in SUBSET S : Cardinality(T) = QUERY_LIMIT}

\* The records that getByVoter, getByDelegateId and getByParentId match.
ByVoter(st, voter) == {cv \in st.castingVoting : cv[2] = voter}
ByDelegateId(st, delegateId) ==
    {k \in DOMAIN st.delegation : st.delegation[k].delegateId = delegateId}
ByParentId(st, cv) ==
    {k \in st.delegatorVoting : k[1] = cv[1] /\ k[2] = cv[2]}

\* The votes of cvList whose referendum is stored with track trackId.
OnTrack(st, cvList, trackId) ==
    {cv \in cvList : cv[1] \in DOMAIN st.referendum /\ st.referendum[cv[1]] = trackId}

propagateVoteToDelegators(st, delegateAddress, cv, referendumId, delegations) ==
    IF delegations = {} \/ referendumId \notin DOMAIN st.referendum THEN st
    ELSE LET mine == {k \in delegations : k[2] = st.referendum[referendumId]}
         IN [st EXCEPT !.delegatorVoting = @ \cup {<<cv[1], cv[2], k[1]>> : k \in mine}]

createDelegatorVotingsForNewDelegation(st, delegator, trackId, cvList) ==
    [st EXCEPT !.delegatorVoting =
        @ \cup {<<cv[1], cv[2], delegator>> : cv \in OnTrack(st, cvList, trackId)}]

removeDelegatorVotings(st, delegator, trackId, cvList) ==
    [st EXCEPT !.delegatorVoting =
        @ \ {<<cv[1], cv[2], delegator>> : cv \in OnTrack(st, cvList, trackId)}]

\* updateDelegateStats that leaves delegatorVotes alone when a delegation is
\* taken away.
updateDelegateStatsKeepVotes(st, accountId, amount, isAdd) ==
    IF accountId \notin DOMAIN st.delegate /\ ~isAdd THEN st
    ELSE LET old == IF accountId \in DOMAIN st.delegate THEN st.delegate[accountId]
                    ELSE [delegators |-> 0, delegatorVotes |-> 0]
             new == IF isAdd
                    THEN [delegators |-> old.delegators + 1,
                          delegatorVotes |-> old.delegatorVotes + amount]
                    ELSE [delegators |-> IF old.delegators - 1 > 0 THEN old.delegators - 1 ELSE 0,
                          delegatorVotes |-> old.delegatorVotes]
         IN [st EXCEPT !.delegate = Put(@, accountId, new)]

updateDelegateStats(st, accountId, amount, isAdd) ==
    IF accountId \notin DOMAIN st.delegate /\ ~isAdd THEN st
    ELSE LET old == IF accountId \in DOMAIN st.delegate THEN st.delegate[accountId]
                    ELSE [delegators |-> 0, delegatorVotes |-> 0]
             new == IF isAdd
                    THEN [delegators |-> old.delegators + 1,
                          delegatorVotes |-> old.delegatorVotes + amount]
                    ELSE [delegators |-> IF old.delegators - 1 > 0 THEN old.delegators - 1 ELSE 0,
                          delegatorVotes |-> IF old.delegatorVotes - amount < 0 THEN 0
                                             ELSE old.delegatorVotes - amount]
         IN [st EXCEPT !.delegate = Put(@, accountId, new)]

GovVars == <<noterVars, boot, memo, payout>>

handleReferendumSubmitted(refIndex, trackId) ==
    /\ index' = [index EXCEPT !.referendum = Put(@, refIndex, trackId)]
    /\ UNCHANGED GovVars

handleVoteCall(voter, pollIndex) ==
    /\ LET cv == <<pollIndex, voter>>
           st1 == IF pollIndex \in DOMAIN index.referendum THEN index
                  ELSE [index EXCEPT !.referendum = Put(@, pollIndex, 0)]
           st2 == [st1 EXCEPT !.castingVoting = @ \cup {cv}]
       IN IF voter \in DOMAIN st2.delegate /\ st2.delegate[voter].delegators > 0
          THEN \E delegations \in Limit(ByDelegateId(st2, voter)) :
                  index' = propagateVoteToDelegators(
                               [st2 EXCEPT !.delegateVote = @ \cup {<<voter, pollIndex>>}],
                               voter, cv, pollIndex, delegations)
          ELSE index' = st2
    /\ UNCHANGED GovVars

handleRemoveVoteCall(voter, pollIndex) ==
    /\ LET cv == <<pollIndex, voter>>
       IN \E dvList \in Limit(ByParentId(index, cv)) :
             index' = [index EXCEPT
                         !.delegatorVoting = @ \ dvList,
                         !.delegateVote = @ \ {<<voter, pollIndex>>},
                         !.castingVoting = @ \ {cv}]
    /\ UNCHANGED GovVars

handleDelegateCall(delegator, trackId, target, balance) ==
    /\ LET delegationId == <<delegator, trackId>>
           had == delegationId \in DOMAIN index.delegation
           oldTarget == IF had THEN index.delegation[delegationId].delegateId ELSE target
           st1 == IF had
                  THEN updateDelegateStats(index, oldTarget,
                                           index.delegation[delegationId].amount, FALSE)
                  ELSE index
       IN \E oldVotes \in Limit(ByVoter(st1, oldTarget)) :
             LET st2 == IF had /\ oldTarget # target
                        THEN removeDelegatorVotings(st1, delegator, trackId, oldVotes)
                        ELSE st1
                 st3 == [st2 EXCEPT !.delegation =
                            Put(@, delegationId, [delegateId |-> target, amount |-> balance])]
                 st4 == updateDelegateStats(st3, target, balance, TRUE)
             IN \E cvList \in Limit(ByVoter(st4, target)) :
                   index' = createDelegatorVotingsForNewDelegation(st4, delegator, trackId,
                                                                   cvList)
    /\ UNCHANGED GovVars

handleUndelegateCall(delegator, trackId) ==
    /\ LET delegationId == <<delegator, trackId>>
       IN IF delegationId \notin DOMAIN index.delegation
          THEN index' = index
          ELSE LET target == index.delegation[delegationId].delegateId
               IN \E cvList \in Limit(ByVoter(index, target)) :
                     LET st1 == removeDelegatorVotings(index, delegator, trackId, cvList)
                         st2 == updateDelegateStats(st1, target,
                                                    index.delegation[delegationId].amount, FALSE)
                     IN index' = [st2 EXCEPT !.delegation = Drop(@, {delegationId})]
    /\ UNCHANGED GovVars

GovInit ==
    /\ NoterAbsent
    /\ memo = NoMemo
    /\ payout = NoPayout
    /\ index = EmptyStore

GovNext ==
    \/ \E r \in Referenda, t \in Tracks : handleReferendumSubmitted(r, t)
    \/ \E v \in GovDelegates, r \in Referenda : handleVoteCall(v, r)
    \/ \E v \in GovDelegates, r \in Referenda : handleRemoveVoteCall(v, r)
    \/ \E d \in GovDelegators, t \in Tracks, v \in GovDelegates, b \in Balances :
          handleDelegateCall(d, t, v, b)
    \/ \E d \in GovDelegators, t \in Tracks : handleUndelegateCall(d, t)

GovSpec == GovInit /\ [][GovNext]_vars

RECURSIVE SumAmounts(_, _)
SumAmounts(st, K) ==
    IF K = {} THEN 0
    ELSE LET k == CHOOSE x \in K : TRUE
         IN st.delegation[k].amount + SumAmounts(st, K \ {k})

\* C34: every Delegate record counts the stored Delegation records that point
\* at it and holds the sum of their amounts, and neither number is negative.
DelegateStatistics ==
    \A a \in DOMAIN index.delegate :
        /\ index.delegate[a].delegators = Cardinality(ByDelegateId(index, a))
        /\ index.delegate[a].delegatorVotes = SumAmounts(index, ByDelegateId(index, a))
        /\ index.delegate[a].delegators >= 0
        /\ index.delegate[a].delegatorVotes >= 0

\* d1 has moved its delegation on track 0 from v1 to v2 and d2 delegates to v2
\* on both tracks: v1 is left with nothing and v2 holds three delegations.
DelegateStatisticsWitness ==
    /\ DOMAIN index.delegate = {"v1", "v2"}
    /\ index.delegate["v1"] = [delegators |-> 0, delegatorVotes |-> 0]
    /\ index.delegate["v2"] = [delegators |-> 3, delegatorVotes |-> 5]
    /\ <<"d1", 0>> \in DOMAIN index.delegation
    /\ index.delegation[<<"d1", 0>>].amount = 1

\* C36: every stored DelegatorVoting record (vote of delegate v on referendum
\* r, delegator d) goes with a stored Delegation from d to v.
NoStaleDelegatorVotes ==
    \A dv \in index.delegatorVoting :
        \E k \in DOMAIN index.delegation :
            k[1] = dv[3] /\ index.delegation[k].delegateId = dv[2]

-----------------------------------------------------------------------------
(* A delegate with more delegators than one query returns: v1 votes on         *)
(* referendum 1, then the accounts 1, 2, ... delegate to v1 on track 0, one    *)
(* after the other; v1 may remove its vote at any time.                        *)

CrowdSize == QUERY_LIMIT + 1

\* The next account of the crowd delegates to v1.
CrowdDelegates ==
    /\ Cardinality(DOMAIN index.delegation) < CrowdSize
    /\ handleDelegateCall(Cardinality(DOMAIN index.delegation) + 1, 0, "v1", 1)

\* v1 votes before anyone delegates to it.
CrowdVotes ==
    /\ index.delegation = <<>>
    /\ handleVoteCall("v1", 1)

CrowdNext ==
    \/ CrowdVotes
    \/ CrowdDelegates
    \/ handleRemoveVoteCall("v1", 1)

CrowdSpec == GovInit /\ [][CrowdNext]_vars

\* C35: every stored DelegatorVoting record has a stored parent CastingVoting
\* record.
NoOrphanDelegatorVotes ==
    \A dv \in index.delegatorVoting : <<dv[1], dv[2]>> \in index.castingVoting
====
